---- MODULE Spec2Model ----
(***************************************************************************)
(* garfutils: the post lifecycle (make, revise, transcribe) over the       *)
(* directory layout of a Location, as a state machine over the filesystem. *)
(*                                                                         *)
(* Text (file contents, file stems, post ids) is a sequence of one-letter  *)
(* strings, so that formatting and parsing a date are computed and not     *)
(* assumed.  A post directory is a function from the names of the files it *)
(* holds to their contents; generated/, posts/ and old/ are functions from *)
(* the ids of the post directories they hold to those directories.         *)
(***************************************************************************)
EXTENDS Integers, Sequences, FiniteSets, TLC

(***************************************************************************)
(* Bounds of the model.                                                    *)
(***************************************************************************)
\* The number of command invocations (make, revise, transcribe) in one run.
MaxCalls == 2

(***************************************************************************)
(* Text and dates.                                                         *)
(***************************************************************************)
Digits == <<"0", "1", "2", "3", "4", "5", "6", "7", "8", "9">>

IsDigit(c) == \E k \in 1..10 : Digits[k] = c

DigitVal(c) == (CHOOSE k \in 1..10 : Digits[k] = c) - 1

IsSpace(c) == c \in {" ", "\n", "\t"}

RECURSIVE Pow10(_)
Pow10(n) == IF n = 0 THEN 1 ELSE 10 * Pow10(n - 1)

\* `n` written with `width` digits, zero padded ({:04}, {:02}); n < 10^width.
Pad(n, width) == [i \in 1..width |-> Digits[((n \div Pow10(width - i)) % 10) + 1]]

Drop(s, k) == SubSeq(s, k + 1, Len(s))

RECURSIVE trim_start(_)
trim_start(s) ==
    IF s # <<>> /\ IsSpace(Head(s)) THEN trim_start(Tail(s)) ELSE s

RECURSIVE trim_end(_)
trim_end(s) ==
    IF s # <<>> /\ IsSpace(s[Len(s)]) THEN trim_end(SubSeq(s, 1, Len(s) - 1)) ELSE s

\* str::trim
trim(s) == trim_end(trim_start(s))

\* The number of leading digits of s, at most max.
RECURSIVE DigitRun(_, _)
DigitRun(s, max) ==
    IF max = 0 \/ s = <<>> \/ ~IsDigit(Head(s)) THEN 0
    ELSE 1 + DigitRun(Tail(s), max - 1)

RECURSIVE DigitsValue(_)
DigitsValue(s) ==
    IF s = <<>> THEN 0 ELSE 10 * DigitsValue(SubSeq(s, 1, Len(s) - 1)) + DigitVal(s[Len(s)])

\* A numeric item of a chrono format string: leading white space is skipped,
\* then between 1 and max digits are read.
ScanNumber(s, max) ==
    LET t == trim_start(s)
        n == DigitRun(t, max)
    IN  IF n = 0 THEN [ok |-> FALSE, val |-> 0, rest |-> t]
        ELSE [ok |-> TRUE, val |-> DigitsValue(SubSeq(t, 1, n)), rest |-> Drop(t, n)]

\* A literal of a chrono format string: s without it, or Err.
HasLiteral(s, c) == s # <<>> /\ Head(s) = c

IsLeapYear(y) == (y % 4 = 0 /\ y % 100 # 0) \/ y % 400 = 0

DaysInMonth(y, m) ==
    IF m = 2 THEN (IF IsLeapYear(y) THEN 29 ELSE 28)
    ELSE IF m \in {4, 6, 9, 11} THEN 30 ELSE 31

\* NaiveDate::from_ymd_opt
IsValidDate(y, m, d) == m \in 1..12 /\ d \in 1..DaysInMonth(y, m)

NoDate == [year |-> 0, month |-> 0, day |-> 0]

\* %d, then the end of the text, then the check that the date exists.
ParseDay(year, month, d) ==
    IF d.ok /\ d.rest = <<>> /\ IsValidDate(year, month, d.val)
    THEN [year |-> year, month |-> month, day |-> d.val]
    ELSE NoDate

\* %m, "-", and the rest.
ParseMonth(year, m) ==
    IF m.ok /\ HasLiteral(m.rest, "-")
    THEN ParseDay(year, m.val, ScanNumber(Tail(m.rest), 2))
    ELSE NoDate

\* %Y, "-", and the rest.
ParseYear(y) ==
    IF y.ok /\ HasLiteral(y.rest, "-")
    THEN ParseMonth(y.val, ScanNumber(Tail(y.rest), 2))
    ELSE NoDate

\* NaiveDate::parse_from_str(text, "%Y-%m-%d"): NoDate stands for Err.  %Y reads
\* up to four digits (the texts of this model carry no sign), %m and %d up to two,
\* and nothing may follow the day.
ParseDate(text) == ParseYear(ScanNumber(text, 4))

\* NaiveDate's Display (date.to_string()): YYYY-MM-DD.
FormatDate(date) ==
    Pad(date.year, 4) \o <<"-">> \o Pad(date.month, 2) \o <<"-">> \o Pad(date.day, 2)

(***************************************************************************)
(* The files of a post directory (post_file) and the filesystem helpers.   *)
(***************************************************************************)
INITIAL == "esperanto.png"
DUPLICATE == "english.png"
SVG == "esperanto.svg"
TITLE == "title"
DATE == "date"
TRANSCRIPT == "transcript"
PROPS == "props"
SPECIAL == "special"

\* A directory with nothing in it.
EmptyDir == [f \in {} |-> <<>>]

\* dir with child `name` created or replaced.
Put(dir, name, child) ==
    [x \in DOMAIN dir \cup {name} |-> IF x = name THEN child ELSE dir[x]]

\* dir without child `name`.
Remove(dir, name) == [x \in DOMAIN dir \ {name} |-> dir[x]]

\* Path::exists for dir/name/file.
FileExists(dir, name, file) == name \in DOMAIN dir /\ file \in DOMAIN dir[name]

(***************************************************************************)
(* The values the model draws its inputs from.                             *)
(***************************************************************************)
D1 == [year |-> 2024, month |-> 1, day |-> 7]
D2 == [year |-> 2024, month |-> 1, day |-> 8]
\* A date with no comic under source/.
D3 == [year |-> 2024, month |-> 2, day |-> 30 - 1]
Dates == {D1, D2, D3}

Id5 == <<"5">>
Id6 == <<"6">>
Ids == {Id5, Id6}

Watermark == <<"w">>
TitleText == <<"T">>
GoodProps == <<"g", "o", "o", "d", "\n">>
OldTranscript == <<"-", "-", "-", "\n", "h", "i">>
NewTranscript == <<"h", "o">>
\* A date file written by hand: no zero padding, a trailing newline.
D2ByHand == <<"2", "0", "2", "4", "-", "1", "-", "8", "\n">>

\* comic_format::convert_image and the PNG encoding of its result: some bytes that
\* the comic and the watermark determine.
ConvertImage(stem, watermark) == <<"P">> \o stem \o <<"|">> \o watermark

CompletedPost(dateText, extra) ==
    (DATE :> dateText) @@ (INITIAL :> <<"P", "e">>) @@ (DUPLICATE :> <<"P", "e">>) @@ extra

\* The layouts a run starts from: nothing yet (not even tmp/); one completed,
\* approved post and one generated post in progress; two completed posts (one with
\* no title file, one finished and once revised before).
Layouts ==
    { [generated |-> EmptyDir, posts |-> EmptyDir, old |-> EmptyDir, tmpDir |-> FALSE],
      [generated |-> (Id5 :> CompletedPost(FormatDate(D2), (TITLE :> <<>>))), tmpDir |-> TRUE,
       posts |-> (Id6 :> CompletedPost(FormatDate(D1), (TITLE :> TitleText) @@ (PROPS :> GoodProps))),
       old |-> EmptyDir],
      [generated |-> EmptyDir, tmpDir |-> TRUE,
       posts |-> (Id6 :> CompletedPost(FormatDate(D1) \o <<"\n">>, EmptyDir))
                 @@ (Id5 :> CompletedPost(D2ByHand,
                            (TITLE :> TitleText) @@ (TRANSCRIPT :> OldTranscript)
                            @@ (SPECIAL :> <<>>) @@ (SVG :> <<"<">>))),
       old |-> (Id5 :> CompletedPost(D2ByHand, (TITLE :> <<>>)))] }

\* What Location::check_dirs_exist lets through: icon.png is a regular file (an
\* image or not), watermarks is a regular file (with lines or without).
Environments ==
    { [iconOk |-> TRUE,  watermarks |-> <<Watermark>>],
      [iconOk |-> FALSE, watermarks |-> <<Watermark>>],
      [iconOk |-> TRUE,  watermarks |-> <<>>] }

(***************************************************************************)
(* The state.                                                              *)
(***************************************************************************)
VARIABLES
    source,       \* source/: the stems of its .png files
    iconOk,       \* icon.png decodes as an image
    watermarks,   \* the lines of the watermarks file
    generated,    \* generated/<id>/<file>
    posts,        \* posts/<id>/<file>
    old,          \* old/<id>/<file>
    tmpDir,       \* tmp/ exists
    tmp,          \* tmp/transcript.<id>
    pc,           \* where the running command is: idle, or blocked on the user
    cur,          \* the running command, and tmp/ as it was when the command started
    calls,        \* the number of commands invoked so far
    mk,           \* what the last call of make returned, and the directory it left
    exit,         \* how the editor last exited
    result,       \* what the last command returned
    overridden,   \* some call of make had skip_post_check = true
    arg,          \* the arguments of a function applied on its own
    ans,          \* what it returned
    recent        \* the recent file

vars == <<source, iconOk, watermarks, generated, posts, old, tmpDir, tmp,
          pc, cur, calls, mk, exit, result, overridden, arg, ans, recent>>

\* What make, revise and transcribe do not write.
fixed == <<source, iconOk, watermarks, arg, ans, recent>>

\* tmp/ as a command finds it when it starts.
Temp(exists, files) == [tmpDir |-> exists, tmp |-> files]

NoCall == [op |-> "none", id |-> <<>>, shown |-> <<>>, before |-> Temp(FALSE, EmptyDir)]
NoMake ==
    [n |-> 0, date |-> NoDate, name |-> <<>>, skip |-> FALSE, ret |-> "none", dir |-> EmptyDir]
NoResult == [n |-> 0, op |-> "none", id |-> <<>>, status |-> "none", err |-> ""]
NoArg == [fn |-> "none"]
NoAns == [ret |-> "none"]

\* The recent file: missing, not to be opened, or its bytes.
NoFile == [kind |-> "missing", text |-> <<>>]
LockedFile == [kind |-> "locked", text |-> <<>>]
TextFile(text) == [kind |-> "text", text |-> text]

Init ==
    /\ source = {FormatDate(D1), FormatDate(D2), <<"n", "o", "t", "e", "s">>}
    /\ \E env \in Environments :
          /\ iconOk = env.iconOk
          /\ watermarks = env.watermarks
    /\ \E layout \in Layouts :
          /\ generated = layout.generated
          /\ posts = layout.posts
          /\ old = layout.old
          /\ tmpDir = layout.tmpDir
    /\ tmp = EmptyDir
    /\ pc = "idle"
    /\ cur = NoCall
    /\ calls = 0
    /\ mk = NoMake
    /\ exit = "none"
    /\ result = NoResult
    /\ overridden = FALSE
    /\ arg = NoArg
    /\ ans = NoAns
    /\ recent = NoFile

(***************************************************************************)
(* make                                                                    *)
(***************************************************************************)
\* A variant that compares the text of the date file with the formatted date.
exists_post_with_date_text(dir, date) ==
    \E id \in DOMAIN dir :
        /\ DATE \in DOMAIN dir[id]
        /\ dir[id][DATE] = FormatDate(date)

\* exists_post_with_date: some entry of dir has a date file that parses (trimmed)
\* to `date`; entries with a missing or malformed date file are skipped.
exists_post_with_date(dir, date) ==
    \E id \in DOMAIN dir :
        /\ DATE \in DOMAIN dir[id]
        /\ ParseDate(trim(dir[id][DATE])) = date

\* A variant that takes every date for the date of a comic.
comic_exists_any(date) == TRUE

\* source/<date>.png exists.
comic_exists(date) == FormatDate(date) \in source

\* A variant that ends the date file with a newline.
date_file_contents_line(date) == FormatDate(date) \o <<"\n">>

\* What make writes to the date file.
date_file_contents(date) == FormatDate(date)

\* The duplicate image: fs::copy of the primary image.
duplicate_image(initial) == initial

\* The steps of make that touch the new directory and may fail on I/O.
MakeFaults == {"none", "write_date", "create_title", "open_comic", "save_image", "copy_image"}

\* rng.gen_range(0..watermarks.len()): the indexes it may return.
WatermarkIndexes == 1..Len(watermarks)

\* The indexes to try: one stand-in when the range is empty (make panics there).
IndexChoices == IF WatermarkIndexes = {} THEN {0} ELSE WatermarkIndexes

\* A variant that looks in posts/ before generated/.
make_checks_posts_first(date, name, skip_post_check) ==
    IF ~iconOk THEN "Failed to open icon image"
    ELSE IF WatermarkIndexes = {} THEN "panic"
    ELSE IF ~comic_exists(date) THEN "Not the date of a real comic"
    ELSE IF exists_post_with_date(posts, date) /\ ~skip_post_check
        THEN "There already exists a completed post with that date"
    ELSE IF exists_post_with_date(generated, date)
        THEN "There already exists an incomplete post with that date"
    ELSE IF name \in DOMAIN generated THEN "Failed to create generated post directory"
    ELSE "ok"

\* A variant that ignores skip_post_check.
make_checks_no_skip(date, name, skip_post_check) ==
    IF ~iconOk THEN "Failed to open icon image"
    ELSE IF WatermarkIndexes = {} THEN "panic"
    ELSE IF ~comic_exists(date) THEN "Not the date of a real comic"
    ELSE IF exists_post_with_date(generated, date)
        THEN "There already exists an incomplete post with that date"
    ELSE IF exists_post_with_date(posts, date)
        THEN "There already exists a completed post with that date"
    ELSE IF name \in DOMAIN generated THEN "Failed to create generated post directory"
    ELSE "ok"

\* make up to fs::create_dir: "ok", "panic" or the error it returns.
make_checks(date, name, skip_post_check) ==
    IF ~iconOk THEN "Failed to open icon image"
    ELSE IF WatermarkIndexes = {} THEN "panic"
    ELSE IF ~comic_exists(date) THEN "Not the date of a real comic"
    ELSE IF exists_post_with_date(generated, date)
        THEN "There already exists an incomplete post with that date"
    ELSE IF exists_post_with_date(posts, date) /\ ~skip_post_check
        THEN "There already exists a completed post with that date"
    ELSE IF name \in DOMAIN generated THEN "Failed to create generated post directory"
    ELSE "ok"

\* make from fs::create_dir on: what it returns and the new directory as it leaves
\* it.  `fault` is the step the environment fails, `index` the watermark picked.
make_files(date, fault, index) ==
    LET d1 == (DATE :> date_file_contents(date))
        d2 == d1 @@ (TITLE :> <<>>)
        initial == ConvertImage(FormatDate(date), watermarks[index])
    IN  IF fault = "write_date" THEN [ret |-> "Failed to write date file", dir |-> EmptyDir]
        ELSE IF fault = "create_title" THEN [ret |-> "Failed to create title file", dir |-> d1]
        ELSE IF fault = "open_comic" THEN [ret |-> "Failed to open comic", dir |-> d2]
        ELSE IF fault = "save_image" THEN [ret |-> "Failed to save generated image", dir |-> d2]
        ELSE IF fault = "copy_image"
        THEN [ret |-> "Failed to copy generated image", dir |-> d2 @@ (INITIAL :> initial)]
        ELSE [ret |-> "ok",
              dir |-> d2 @@ (INITIAL :> initial) @@ (DUPLICATE :> duplicate_image(initial))]

\* A variant that removes the new directory when a later step fails.
make_checked_rollback(checked, date, name, fault, index) ==
    IF checked # "ok"
    THEN [ret |-> checked, created |-> FALSE, dir |-> EmptyDir, generated |-> generated]
    ELSE [ret |-> make_files(date, fault, index).ret,
          created |-> TRUE,
          dir |-> make_files(date, fault, index).dir,
          generated |-> IF make_files(date, fault, index).ret = "ok"
                        THEN Put(generated, name, make_files(date, fault, index).dir)
                        ELSE generated]

\* make with its checks done: `checked` is what they gave.
make_checked(checked, date, name, fault, index) ==
    IF checked # "ok"
    THEN [ret |-> checked, created |-> FALSE, dir |-> EmptyDir, generated |-> generated]
    ELSE [ret |-> make_files(date, fault, index).ret,
          created |-> TRUE,
          dir |-> make_files(date, fault, index).dir,
          generated |-> Put(generated, name, make_files(date, fault, index).dir)]

\* make(location, date, name, skip_post_check): what it returns ("ok", "panic" or
\* the error), whether it created generated/<name>, that directory and generated/
\* as it leaves them.
make(date, name, skip_post_check, fault, index) ==
    make_checked(make_checks(date, name, skip_post_check), date, name, fault, index)

Status(ret) == IF ret = "ok" THEN "ok" ELSE IF ret = "panic" THEN "panic" ELSE "err"

\* What make returned, for mk.
MakeRecord(n, date, name, skip, r) ==
    [n |-> n, date |-> date, name |-> name, skip |-> skip, ret |-> r.ret, dir |-> r.dir]

\* The make command: make(location, date, name, false) with a caller-supplied name.
MakeCmd(date, name, fault, index) ==
    /\ pc = "idle"
    /\ calls < MaxCalls
    /\ \E r \in {make(date, name, FALSE, fault, index)} :
           /\ generated' = r.generated
           /\ mk' = MakeRecord(calls + 1, date, name, FALSE, r)
           /\ result' = [n |-> calls + 1, op |-> "make", id |-> name,
                         status |-> Status(r.ret), err |-> IF r.ret = "ok" THEN "" ELSE r.ret]
    /\ calls' = calls + 1
    /\ UNCHANGED <<fixed, posts, old, tmpDir, tmp, pc, cur, exit, overridden>>

(***************************************************************************)
(* The promotion of a generated post to posts/, done outside the program.  *)
(***************************************************************************)
Promote(id) ==
    /\ id \in DOMAIN generated
    /\ id \notin DOMAIN posts
    /\ posts' = Put(posts, id, generated[id])
    /\ generated' = Remove(generated, id)
    /\ UNCHANGED <<fixed, old, tmpDir, tmp, pc, cur, calls, mk, exit, result, overridden>>

(***************************************************************************)
(* revise                                                                  *)
(***************************************************************************)
\* A variant that leaves the vector image behind.
copy_files_no_svg ==
    << <<TITLE, TRUE>>, <<TRANSCRIPT, FALSE>>, <<PROPS, FALSE>>, <<SPECIAL, FALSE>> >>

\* copy_files of revise: (file, is_required), in the order they are copied.
copy_files ==
    << <<TITLE, TRUE>>, <<TRANSCRIPT, FALSE>>, <<PROPS, FALSE>>, <<SPECIAL, FALSE>>,
       <<SVG, FALSE>> >>

CopyFaults == {"none", TITLE, TRANSCRIPT, PROPS, SPECIAL, SVG}

\* The copy loop of revise over `files`, from the completed post `post` into the
\* generated directory `gen`: what it ends with and the directory as it leaves it.
\* `fault` is the file whose fs::copy the environment fails.  (The messages have the
\* file name between backquotes in the source.)
copy_forward(files, post, gen, fault) ==
    LET Present(i) == files[i][1] \in DOMAIN post
        \* The iteration that bails or whose copy fails.
        Stops(i) == IF Present(i) THEN fault = files[i][1] ELSE files[i][2]
        stop == IF \E i \in 1..Len(files) : Stops(i)
                THEN CHOOSE i \in 1..Len(files) : Stops(i) /\ \A j \in 1..(i - 1) : ~Stops(j)
                ELSE Len(files) + 1
        copied == {files[j][1] : j \in {i \in 1..(stop - 1) : Present(i)}}
        dir == [f \in DOMAIN gen \cup copied |-> IF f \in copied THEN post[f] ELSE gen[f]]
    IN  IF stop > Len(files) THEN [ret |-> "ok", dir |-> dir]
        ELSE IF Present(stop)
        THEN [ret |-> "Failed to copy " \o files[stop][1] \o " file", dir |-> dir]
        ELSE [ret |-> "Post is missing " \o files[stop][1] \o " file", dir |-> dir]

\* For revise_begin: make was not called.
NotCalled == [ret |-> "none", created |-> FALSE, dir |-> EmptyDir, generated |-> EmptyDir]

\* A variant that removes generated/<id> when the copy loop fails.
revise_copy_rollback(id, m, cfault) ==
    IF m.ret = "panic"
    THEN [ret |-> "panic", make |-> m, generated |-> m.generated]
    ELSE IF m.ret # "ok"
    THEN [ret |-> "Failed to make post", make |-> m, generated |-> m.generated]
    ELSE [ret |-> copy_forward(copy_files, posts[id], m.generated[id], cfault).ret,
          make |-> m,
          generated |-> IF copy_forward(copy_files, posts[id], m.generated[id], cfault).ret = "ok"
                        THEN Put(m.generated, id,
                                 copy_forward(copy_files, posts[id], m.generated[id], cfault).dir)
                        ELSE generated]

\* revise after its call of make returned m: the copy loop.
revise_copy(id, m, cfault) ==
    IF m.ret = "panic"
    THEN [ret |-> "panic", make |-> m, generated |-> m.generated]
    ELSE IF m.ret # "ok"
    THEN [ret |-> "Failed to make post", make |-> m, generated |-> m.generated]
    ELSE \* "ok": it goes on to ask
         [ret |-> copy_forward(copy_files, posts[id], m.generated[id], cfault).ret,
          make |-> m,
          generated |-> Put(m.generated, id,
                            copy_forward(copy_files, posts[id], m.generated[id], cfault).dir)]

\* revise once the date file is read and parsed to `date`.
revise_make(id, date, mfault, index, cfault) ==
    IF date = NoDate
    THEN [ret |-> "Invalid date file for post", make |-> NotCalled, date |-> date,
          generated |-> generated]
    ELSE [date |-> date] @@ revise_copy(id, make(date, id, TRUE, mfault, index), cfault)

\* revise up to its first confirmation: what it ends with ("ok": it goes on to ask),
\* what its call of make returned ("none": make was not called), the date it read
\* and generated/.
revise_begin(id, mfault, index, cfault) ==
    IF DATE \notin DOMAIN posts[id]
    THEN [ret |-> "No such file or directory", make |-> NotCalled, date |-> NoDate,
          generated |-> generated]
    ELSE revise_make(id, ParseDate(trim(posts[id][DATE])), mfault, index, cfault)

Failed(n, op, id, ret) ==
    [n |-> n, op |-> op, id |-> id, status |-> Status(ret), err |-> ret]

Succeeded(n, op, id) ==
    [n |-> n, op |-> op, id |-> id, status |-> "ok", err |-> ""]

\* The revise command with an id: get_revise_id, then revise up to the question
\* "Move old post to old directory?".
ReviseCmd(id, mfault, index, cfault) ==
    /\ pc = "idle"
    /\ calls < MaxCalls
    /\ calls' = calls + 1
    /\ IF id \notin DOMAIN posts
       THEN /\ result' = Failed(calls + 1, "revise", id, "No post exists with that id")
            /\ UNCHANGED <<generated, mk, pc, cur, overridden>>
       ELSE \E r \in {revise_begin(id, mfault, index, cfault)} :
                /\ generated' = r.generated
                /\ IF r.make.ret = "none"
                   THEN UNCHANGED <<mk, overridden>>
                   ELSE /\ mk' = MakeRecord(calls + 1, r.date, id, TRUE, r.make)
                        /\ overridden' = TRUE
                /\ IF r.ret = "ok"
                   THEN /\ pc' = "confirm_move"
                        /\ cur' = [op |-> "revise", id |-> id, shown |-> <<>>,
                                   before |-> Temp(tmpDir, tmp)]
                        /\ UNCHANGED result
                   ELSE /\ result' = Failed(calls + 1, "revise", id, r.ret)
                        /\ UNCHANGED <<pc, cur>>
    /\ UNCHANGED <<fixed, posts, old, tmpDir, tmp, exit>>

\* A variant that never finds the post under old/.
already_revised_never(id) == FALSE

\* old/<id> exists: the post was revised before.
already_revised(id) == id \in DOMAIN old

\* A variant whose failed rename leaves the post under old/ as well.
ReviseMoveCopies(fault) ==
    /\ pc = "confirm_move"
    /\ IF already_revised(cur.id)
       THEN /\ result' = Failed(calls, "revise", cur.id, "unimplemented: post already revised")
            /\ pc' = "idle"
            /\ cur' = NoCall
            /\ UNCHANGED <<posts, old>>
       ELSE IF fault
       THEN /\ result' = Failed(calls, "revise", cur.id, "Failed to move post to old directory")
            /\ pc' = "idle"
            /\ cur' = NoCall
            /\ old' = Put(old, cur.id, posts[cur.id])
            /\ UNCHANGED posts
       ELSE /\ old' = Put(old, cur.id, posts[cur.id])
            /\ posts' = Remove(posts, cur.id)
            /\ pc' = "wait"
            /\ UNCHANGED <<cur, result>>
    /\ UNCHANGED <<fixed, generated, tmpDir, tmp, calls, mk, exit, overridden>>

\* The user answers "Move old post to old directory?": revise moves posts/<id> to
\* old/<id>, unless old/<id> exists, and starts to wait.  `fault`: fs::rename fails.
ReviseMove(fault) ==
    /\ pc = "confirm_move"
    /\ IF already_revised(cur.id)
       THEN /\ result' = Failed(calls, "revise", cur.id, "unimplemented: post already revised")
            /\ pc' = "idle"
            /\ cur' = NoCall
            /\ UNCHANGED <<posts, old>>
       ELSE IF fault
       THEN /\ result' = Failed(calls, "revise", cur.id, "Failed to move post to old directory")
            /\ pc' = "idle"
            /\ cur' = NoCall
            /\ UNCHANGED <<posts, old>>
       ELSE /\ old' = Put(old, cur.id, posts[cur.id])
            /\ posts' = Remove(posts, cur.id)
            /\ pc' = "wait"
            /\ UNCHANGED <<cur, result>>
    /\ UNCHANGED <<fixed, generated, tmpDir, tmp, calls, mk, exit, overridden>>

\* A variant that does not look for the path.
wait_for_file_blind(dir, id) == TRUE

\* file::wait_for_file(posts/<id>): the loop ends when the path exists.
wait_for_file(dir, id) == id \in DOMAIN dir

\* The poll of revise that finds posts/<id>: revise returns.  (A poll that does not
\* find it sleeps and changes nothing.)
ReviseReturn ==
    /\ pc = "wait"
    /\ wait_for_file(posts, cur.id)
    /\ result' = Succeeded(calls, "revise", cur.id)
    /\ pc' = "idle"
    /\ cur' = NoCall
    /\ UNCHANGED <<fixed, generated, posts, old, tmpDir, tmp, calls, mk, exit, overridden>>

(***************************************************************************)
(* The process-killer (commands.rs).                                       *)
(***************************************************************************)
\* How running pkill may end: it exits with zero (a process was killed), it exits
\* with non-zero (no process was found), or it cannot be run.
Kills == {"zero", "nonzero", "unspawned"}

\* A variant that takes a non-zero exit for a failure.
kill_process_class_strict(kill) == IF kill = "zero" THEN "ok" ELSE "Killing image viewer"

\* commands::kill_process_class: Command::status fails only when pkill cannot be
\* run; its exit status is not looked at.
kill_process_class(kill) == IF kill = "unspawned" THEN "Killing image viewer" ELSE "ok"

(***************************************************************************)
(* transcribe                                                              *)
(***************************************************************************)
\* u32::MAX, 4294967295, in decimal digits (it is past the integers TLC has).
U32MaxDigits == <<"4", "2", "9", "4", "9", "6", "7", "2", "9", "5">>

RECURSIVE StripZeros(_)
StripZeros(s) == IF Len(s) > 1 /\ Head(s) = "0" THEN StripZeros(Tail(s)) ELSE s

\* a <= b for digit texts of one length.
RECURSIVE DigitsLeq(_, _)
DigitsLeq(a, b) ==
    IF a = <<>> THEN TRUE
    ELSE IF DigitVal(Head(a)) # DigitVal(Head(b)) THEN DigitVal(Head(a)) < DigitVal(Head(b))
    ELSE DigitsLeq(Tail(a), Tail(b))

\* The digits `s` (no leading zeros) are a value of u32.
FitsU32(s) ==
    \/ Len(s) < Len(U32MaxDigits)
    \/ Len(s) = Len(U32MaxDigits) /\ DigitsLeq(s, U32MaxDigits)

AllDigits(s) == s # <<>> /\ DigitRun(s, Len(s)) = Len(s)

\* str::parse::<u32>: an optional "+", then digits only, the value at most u32::MAX.
\* The value is kept as its digits without leading zeros.
ParseU32(text) ==
    IF text # <<>> /\ Head(text) = "+" /\ AllDigits(Tail(text)) /\ FitsU32(StripZeros(Tail(text)))
    THEN [ok |-> TRUE, digits |-> StripZeros(Tail(text))]
    ELSE IF AllDigits(text) /\ FitsU32(StripZeros(text))
    THEN [ok |-> TRUE, digits |-> StripZeros(text)]
    ELSE [ok |-> FALSE, digits |-> <<>>]

\* The value of the digits s, modulo 7.
RECURSIVE Mod7(_)
Mod7(s) ==
    IF s = <<>> THEN 0
    ELSE (10 * Mod7(SubSeq(s, 1, Len(s) - 1)) + DigitVal(s[Len(s)])) % 7

\* A variant that leaves out the increment.
SundayOutcomes_no_increment(digits) ==
    {IF Mod7(digits) % 7 = 0 THEN "sunday" ELSE "weekday"}

\* (id_number + 1) % 7 == 0: id_number + 1 overflows u32 for u32::MAX alone, and
\* there the build decides, a panic (overflow checks on) or the wrapped sum 0.
SundayOutcomes(digits) ==
    IF digits = U32MaxDigits
    THEN {"panic", IF 0 % 7 = 0 THEN "sunday" ELSE "weekday"}
    ELSE {IF (Mod7(digits) + 1) % 7 = 0 THEN "sunday" ELSE "weekday"}

\* is_id_sunday: the outcomes it may have for id.
is_id_sunday(id) ==
    IF ~ParseU32(id).ok THEN {"Post id is not an integer"}
    ELSE SundayOutcomes(ParseU32(id).digits)

SundayTemplate ==
    <<"-", "-", "-", "\n", "-", "-", "-", "\n", "-", "-", "-", "\n",
      "-", "-", "-", "\n", "-", "-", "-", "\n", "-", "-", "-">>

WeekdayTemplate == <<"-", "-", "-", "\n", "-", "-", "-">>

\* transcript_template: the outcomes of computing what the editor is shown for id,
\* a text or the failure.
transcript_template(id) ==
    IF FileExists(posts, id, TRANSCRIPT)
    THEN {[ret |-> "ok", text |-> posts[id][TRANSCRIPT]]}
    ELSE {[ret |-> IF o \in {"sunday", "weekday"} THEN "ok" ELSE o,
           text |-> IF o = "sunday" THEN SundayTemplate ELSE WeekdayTemplate] :
          o \in is_id_sunday(id)}

\* The transcribe command with an id: get_transcribe_id, then transcribe up to the
\* editor.  `kill`: how pkill ends; `viewer`: setting up the image viewer window
\* succeeds.
TranscribeCmd(id, kill, viewer) ==
    /\ pc = "idle"
    /\ calls < MaxCalls
    /\ calls' = calls + 1
    /\ IF id \notin DOMAIN posts
       THEN /\ result' = Failed(calls + 1, "transcribe", id, "No post exists with that id")
            /\ UNCHANGED <<tmpDir, tmp, pc, cur>>
       ELSE /\ tmpDir' = TRUE
            /\ IF kill_process_class(kill) # "ok"
               THEN /\ result' = Failed(calls + 1, "transcribe", id, kill_process_class(kill))
                    /\ UNCHANGED <<tmp, pc, cur>>
               ELSE IF ~viewer
               THEN /\ result' = Failed(calls + 1, "transcribe", id,
                                        "Command did not exit successfully")
                    /\ UNCHANGED <<tmp, pc, cur>>
               ELSE \E t \in transcript_template(id) :
                       IF t.ret # "ok"
                       THEN /\ result' = Failed(calls + 1, "transcribe", id, t.ret)
                            /\ UNCHANGED <<tmp, pc, cur>>
                       ELSE /\ tmp' = Put(tmp, id, t.text)
                            /\ pc' = "editor"
                            /\ cur' = [op |-> "transcribe", id |-> id, shown |-> t.text,
                                       before |-> Temp(tmpDir, tmp)]
                            /\ UNCHANGED result
    /\ UNCHANGED <<fixed, generated, posts, old, mk, exit, overridden>>

Min(a, b) == IF a < b THEN a ELSE b

\* A variant that finds a difference every time.
file_matches_string_never(file, target) == FALSE

\* file::file_matches_string.  The loop runs over file_bytes zipped with
\* target_bytes: zip takes the next byte of the file first, so when the target ends
\* before the file, one byte of the file past the target's length is consumed and
\* dropped before "either iterator is unexhausted" is asked.
file_matches_string(file, target) ==
    IF \E i \in 1..Min(Len(file), Len(target)) : file[i] # target[i]
    THEN FALSE
    ELSE /\ Len(file) <= (IF Len(file) > Len(target) THEN Len(target) + 1 ELSE Len(file))
         /\ Len(target) <= Min(Len(file), Len(target))

\* What the user may leave in the working file: what was shown, that and a final
\* newline, or a transcript.
Edits(shown) == {shown, shown \o <<"\n">>, NewTranscript}

\* The editor exits after writing `text` to tmp/transcript.<id>; `success`: its exit
\* status, `kill` how pkill ends then.  transcribe compares the file against what
\* it showed.
EditorExit(text, success, kill) ==
    /\ pc = "editor"
    /\ tmp' = Put(tmp, cur.id, text)
    /\ exit' = IF success THEN "success" ELSE "failure"
    /\ IF ~success
       THEN /\ result' = Failed(calls, "transcribe", cur.id, "Editor did not exit successfully")
            /\ pc' = "idle"
            /\ cur' = NoCall
       ELSE IF kill_process_class(kill) # "ok"
       THEN /\ result' = Failed(calls, "transcribe", cur.id, kill_process_class(kill))
            /\ pc' = "idle"
            /\ cur' = NoCall
       ELSE IF file_matches_string(text, cur.shown)
       THEN /\ result' = Succeeded(calls, "transcribe", cur.id)
            /\ pc' = "idle"
            /\ cur' = NoCall
       ELSE /\ pc' = "confirm_save"
            /\ UNCHANGED <<cur, result>>
    /\ UNCHANGED <<fixed, generated, posts, old, tmpDir, calls, mk, overridden>>

\* A variant that copies the working file and leaves it behind.
TranscribeSaveCopies ==
    /\ pc = "confirm_save"
    /\ IF cur.id \notin DOMAIN posts
       THEN /\ result' = Failed(calls, "transcribe", cur.id,
                                "Failed to move temporary file to save transcript")
            /\ UNCHANGED <<posts, tmp>>
       ELSE /\ posts' = Put(posts, cur.id, Put(posts[cur.id], TRANSCRIPT, tmp[cur.id]))
            /\ tmp' = tmp
            /\ result' = Succeeded(calls, "transcribe", cur.id)
    /\ pc' = "idle"
    /\ cur' = NoCall
    /\ UNCHANGED <<fixed, generated, old, tmpDir, calls, mk, exit, overridden>>

\* The user answers "Save transcript file?": the working file is renamed to
\* posts/<id>/transcript.
TranscribeSave ==
    /\ pc = "confirm_save"
    /\ IF cur.id \notin DOMAIN posts
       THEN /\ result' = Failed(calls, "transcribe", cur.id,
                                "Failed to move temporary file to save transcript")
            /\ UNCHANGED <<posts, tmp>>
       ELSE /\ posts' = Put(posts, cur.id, Put(posts[cur.id], TRANSCRIPT, tmp[cur.id]))
            /\ tmp' = Remove(tmp, cur.id)
            /\ result' = Succeeded(calls, "transcribe", cur.id)
    /\ pc' = "idle"
    /\ cur' = NoCall
    /\ UNCHANGED <<fixed, generated, old, tmpDir, calls, mk, exit, overridden>>

Next ==
    \/ \E date \in Dates, name \in Ids, fault \in MakeFaults, index \in IndexChoices :
          MakeCmd(date, name, fault, index)
    \/ \E id \in Ids : Promote(id)
    \/ \E id \in Ids, mfault \in MakeFaults, index \in IndexChoices, cfault \in CopyFaults :
          ReviseCmd(id, mfault, index, cfault)
    \/ \E fault \in BOOLEAN : ReviseMove(fault)
    \/ ReviseReturn
    \/ \E id \in Ids, kill \in Kills, viewer \in BOOLEAN : TranscribeCmd(id, kill, viewer)
    \/ \E text \in Edits(cur.shown), success \in BOOLEAN, kill \in Kills :
          EditorExit(text, success, kill)
    \/ TranscribeSave

Spec == Init /\ [][Next]_vars

\* revise polls for posts/<id> every 500 ms for as long as it waits: a poll that
\* can find the directory is taken.
FairSpec == Spec /\ WF_vars(ReviseReturn)

(***************************************************************************)
(* DateRange and MonthDay (range.rs).                                      *)
(***************************************************************************)
\* MonthDay::YEAR: the year every MonthDay is kept in.
YEAR == 0

\* The first index at which sep occurs in s, or 0.
FindSep(s, sep) ==
    LET At(i) == SubSeq(s, i, i + Len(sep) - 1) = sep
        Places == {i \in 1..(Len(s) - Len(sep) + 1) : At(i)}
    IN  IF Places = {} THEN 0 ELSE CHOOSE i \in Places : \A j \in Places : i <= j

\* s.split(sep): the first part, and what follows the first separator if there is
\* one.
FirstPart(s, sep) ==
    IF FindSep(s, sep) = 0 THEN s ELSE SubSeq(s, 1, FindSep(s, sep) - 1)

HasMore(s, sep) == FindSep(s, sep) # 0

AfterFirst(s, sep) == SubSeq(s, FindSep(s, sep) + Len(sep), Len(s))

\* The value of a parsed u32 of at most four digits; month and day are checked
\* against 12 and 31, so a greater value is kept as 9999.
SmallValue(digits) == IF Len(digits) > 4 THEN 9999 ELSE DigitsValue(digits)

NoMonthDay == [ok |-> FALSE, month |-> 0, day |-> 0]

\* A variant that keeps MonthDay in a common year.
MonthDay_from_ymd_opt_common(month, day) ==
    IF IsValidDate(YEAR + 1, month, day)
    THEN [ok |-> TRUE, month |-> month, day |-> day]
    ELSE NoMonthDay

\* MonthDay::from_ymd_opt: NaiveDate::from_ymd_opt(YEAR, month, day).
MonthDay_from_ymd_opt(month, day) ==
    IF IsValidDate(YEAR, month, day)
    THEN [ok |-> TRUE, month |-> month, day |-> day]
    ELSE NoMonthDay

\* MonthDay::try_from(&str) once the text is split at "-": the first part, and the
\* second if there is one; further parts are not looked at.
MonthDay_parts(month, hasDay, day) ==
    IF ~ParseU32(month).ok \/ ~hasDay \/ ~ParseU32(day).ok THEN NoMonthDay
    ELSE MonthDay_from_ymd_opt(SmallValue(ParseU32(month).digits),
                               SmallValue(ParseU32(day).digits))

\* MonthDay::try_from(&str)
MonthDay_try_from(string) ==
    MonthDay_parts(FirstPart(string, <<"-">>),
                   HasMore(string, <<"-">>),
                   IF HasMore(string, <<"-">>)
                   THEN FirstPart(AfterFirst(string, <<"-">>), <<"-">>)
                   ELSE <<>>)

\* A variant that leaves the equal ones out.
MonthDayLeq_strict(a, b) == a.month < b.month \/ (a.month = b.month /\ a.day < b.day)

\* MonthDay's order: the order of the dates in YEAR.
MonthDayLeq(a, b) == a.month < b.month \/ (a.month = b.month /\ a.day <= b.day)

DateRangeErr(message) == [ret |-> message, from |-> NoMonthDay, to |-> NoMonthDay]

\* A variant that does not compare the ends.
DateRange_ends_unordered(from, hasTo, to) ==
    IF ~from.ok THEN DateRangeErr("Invalid start date")
    ELSE IF ~hasTo THEN [ret |-> "ok", from |-> from, to |-> from]
    ELSE IF ~to.ok THEN DateRangeErr("Invalid end date")
    ELSE [ret |-> "ok", from |-> from, to |-> to]

\* DateRange::from_str once both ends are converted.
DateRange_ends(from, hasTo, to) ==
    IF ~from.ok THEN DateRangeErr("Invalid start date")
    ELSE IF ~hasTo THEN [ret |-> "ok", from |-> from, to |-> from]
    ELSE IF ~to.ok THEN DateRangeErr("Invalid end date")
    ELSE IF ~MonthDayLeq(from, to) THEN DateRangeErr("End date must be after start date")
    ELSE [ret |-> "ok", from |-> from, to |-> to]

\* DateRange::from_str: the text is split at "..", the first part is the start and
\* the second, if there is one, the end; further parts are not looked at.
DateRange_from_str(string) ==
    DateRange_ends(MonthDay_try_from(FirstPart(string, <<".", ".">>)),
                   HasMore(string, <<".", ".">>),
                   IF HasMore(string, <<".", ".">>)
                   THEN MonthDay_try_from(FirstPart(AfterFirst(string, <<".", ".">>), <<".", ".">>))
                   ELSE NoMonthDay)

\* MonthDay::from(NaiveDate): date.with_year(YEAR).expect(..), which panics when
\* YEAR has no such day.
MonthDay_from(date) ==
    IF IsValidDate(YEAR, date.month, date.day)
    THEN [ok |-> TRUE, month |-> date.month, day |-> date.day]
    ELSE NoMonthDay

\* DateRange::contains: "true", "false" or "panic".
DateRange_contains(range, date) ==
    IF ~MonthDay_from(date).ok THEN "panic"
    ELSE IF MonthDayLeq(range.from, MonthDay_from(date))
            /\ MonthDayLeq(MonthDay_from(date), range.to)
    THEN "true"
    ELSE "false"

\* DateRange::all
DateRange_all ==
    [ret |-> "ok", from |-> MonthDay_from_ymd_opt(1, 1), to |-> MonthDay_from_ymd_opt(12, 31)]

(***************************************************************************)
(* Directory listings: random selection and search (file.rs, names.rs).    *)
(***************************************************************************)
\* The letters of the file names of this model in the order of their bytes.
Bytes ==
    <<"+", "-", ".", "0", "1", "2", "3", "4", "5", "6", "7", "8", "9",
      "a", "e", "g", "n", "o", "p", "s", "t">>

ByteOf(c) == CHOOSE k \in 1..Len(Bytes) : Bytes[k] = c

\* OsString's order: byte by byte, a prefix first.
RECURSIVE NameLess(_, _)
NameLess(a, b) ==
    IF b = <<>> THEN FALSE
    ELSE IF a = <<>> THEN TRUE
    ELSE IF Head(a) # Head(b) THEN ByteOf(Head(a)) < ByteOf(Head(b))
    ELSE NameLess(Tail(a), Tail(b))

\* The least of a set of names that is not empty.
LeastName(names) == CHOOSE n \in names : \A m \in names : m = n \/ NameLess(n, m)

\* sort_dir_entries: the entries by file name.
RECURSIVE sort_dir_entries(_)
sort_dir_entries(names) ==
    IF names = {} THEN <<>>
    ELSE <<LeastName(names)>> \o sort_dir_entries(names \ {LeastName(names)})

\* An entry of a listing that could not be read.
ErrEntry == [ok |-> FALSE, name |-> <<>>]
Entry(name) == [ok |-> TRUE, name |-> name]

\* A variant that stops at the first entry that could not be read.
Flatten_until_error(listing) ==
    {listing[i].name : i \in {j \in 1..Len(listing) : \A k \in 1..j : listing[k].ok}}

\* Iterator::flatten over the Results of a listing: the entries that were read.
Flatten(listing) == {listing[i].name : i \in {j \in 1..Len(listing) : listing[j].ok}}

\* Path::file_stem: the name up to its last ".", or all of it when it has none or
\* only a leading one.
file_stem(name) ==
    LET Dots == {i \in 2..Len(name) : name[i] = "."}
    IN  IF Dots = {} THEN name
        ELSE SubSeq(name, 1, (CHOOSE i \in Dots : \A j \in Dots : j <= i) - 1)

\* file::get_date_from_path: the date the stem parses to, NoDate for None.
get_date_from_path(name) == ParseDate(file_stem(name))

\* NaiveDate::weekday: 0 for Sunday up to 6 for Saturday.
MonthOffsets == <<0, 3, 2, 5, 0, 3, 5, 1, 4, 6, 2, 4>>
WeekdayOf(y, m, d) ==
    (y + (y \div 4) - (y \div 100) + (y \div 400) + MonthOffsets[m] + d) % 7
weekday(date) ==
    WeekdayOf(IF date.month < 3 THEN date.year - 1 ELSE date.year, date.month, date.day)

path_is_sunday(name) ==
    get_date_from_path(name) # NoDate /\ weekday(get_date_from_path(name)) = 0

path_in_date_range(name, range) ==
    /\ get_date_from_path(name) # NoDate
    /\ DateRange_contains(range, get_date_from_path(name)) = "true"

\* entry_predicate of get_random_date
entry_predicate(name, range, sunday) ==
    path_in_date_range(name, range) /\ (~sunday \/ path_is_sunday(name))

\* The predicate handed to a selection: a set of names that pass, or the predicate
\* of get_random_date.
Passes(pred, name) ==
    IF pred.kind = "show" THEN entry_predicate(name, pred.range, pred.sunday)
    ELSE name \in pred.pass

\* The closure entry_predicate of get_random_date as a predicate of a selection.
ShowPredicate(range, sunday) == [kind |-> "show", range |-> range, sunday |-> sunday]

\* A variant that does not filter.
Filtered_all(listing, pred) == Flatten(listing)

\* get_random_directory_entry up to the sort: the entries read that pass.
Filtered(listing, pred) == {n \in Flatten(listing) : Passes(pred, n)}

\* rng.gen_range(0..entries.len()) of get_random_directory_entry.
EntryIndexes(listing, pred) == 1..Len(sort_dir_entries(Filtered(listing, pred)))

\* get_random_directory_entry: None, or the entry at the index drawn.
get_random_directory_entry(listing, pred, index) ==
    IF Filtered(listing, pred) = {} THEN [ret |-> "none", name |-> <<>>]
    ELSE [ret |-> "some", name |-> sort_dir_entries(Filtered(listing, pred))[index]]

\* The files of a post the searches look at: whether it has an svg file and a
\* transcript file, and its props file ("none" when it has none, "good" when it
\* holds the line good, "other" when it does not, "unreadable" when opening or
\* reading it fails).
has_svg_file(post) == post.svg
has_transcript_file(post) == post.transcript

\* is_post_good: Ok(false) without a props file, the error of opening or reading
\* it, or whether it holds the line good.
is_post_good(post) ==
    CASE post.props = "none" -> "false"
      [] post.props = "unreadable" -> "error"
      [] post.props = "good" -> "true"
      [] OTHER -> "false"

\* The closures handed to find_post; && does not evaluate its right side when the
\* left side is false.
criterion(tag, post) ==
    CASE tag = "untranscribed" ->
            IF has_svg_file(post) /\ ~has_transcript_file(post) THEN "true" ELSE "false"
      [] tag = "good_unrevised" ->
            IF has_svg_file(post) THEN "false" ELSE is_post_good(post)
      [] OTHER ->
            IF has_svg_file(post) THEN "false" ELSE "true"

\* The criteria of find_untranscribed_post and of find_unrevised_post, in order.
untranscribed_criteria == <<"untranscribed">>
unrevised_criteria == <<"good_unrevised", "unrevised">>

NoChild == [ret |-> "none", name |-> <<>>]
ChildError == [ret |-> "err", name |-> <<>>]

\* The loop of find_child over the entries in the order given: the first entry
\* the predicate holds of; the error of the predicate ends the loop.
RECURSIVE first_child(_, _, _)
first_child(entries, tag, dir) ==
    IF entries = <<>> THEN NoChild
    ELSE IF criterion(tag, dir[Head(entries)]) = "error" THEN ChildError
    ELSE IF criterion(tag, dir[Head(entries)]) = "true"
         THEN [ret |-> "some", name |-> Head(entries)]
    ELSE first_child(Tail(entries), tag, dir)

\* The names of the entries read, in the order the listing yields them.
RECURSIVE FlattenSeq(_)
FlattenSeq(listing) ==
    IF listing = <<>> THEN <<>>
    ELSE (IF Head(listing).ok THEN <<Head(listing).name>> ELSE <<>>)
            \o FlattenSeq(Tail(listing))

\* A variant that does not sort the entries.
find_child_unsorted(listing, tag, dir) == first_child(FlattenSeq(listing), tag, dir)

\* file::find_child
find_child(listing, tag, dir) == first_child(sort_dir_entries(Flatten(listing)), tag, dir)

\* names::find_post: the first criterion that finds a post; the error of a search
\* ends it. A directory that cannot be listed is the error of read_dir.
RECURSIVE find_post(_, _, _, _)
find_post(readable, listing, criteria, dir) ==
    IF criteria = <<>> THEN NoChild
    ELSE IF ~readable THEN ChildError
    ELSE IF find_child(listing, Head(criteria), dir) # NoChild
         THEN find_child(listing, Head(criteria), dir)
    ELSE find_post(readable, listing, Tail(criteria), dir)

\* A byte that is part of no UTF-8 text.
InvalidByte == "xFF"

\* TARGET_LINE of is_post_good.
TARGET_LINE == <<"g", "o", "o", "d">>

\* file::file_contains_line over the bytes of a file: the lines are read one by
\* one; a line that is no UTF-8 text is an error, a line that trims to the needle
\* ends the reading with Ok(true).
RECURSIVE file_contains_line(_, _)
file_contains_line(text, needle) ==
    IF text = <<>> THEN "false"
    ELSE IF \E i \in 1..Len(FirstPart(text, <<"\n">>)) : text[i] = InvalidByte THEN "error"
    ELSE IF trim(FirstPart(text, <<"\n">>)) = needle THEN "true"
    ELSE IF HasMore(text, <<"\n">>)
         THEN file_contains_line(AfterFirst(text, <<"\n">>), needle)
    ELSE "false"

\* What the props file of a post directory is to is_post_good.
props_state(files) ==
    IF PROPS \notin DOMAIN files THEN "none"
    ELSE IF file_contains_line(files[PROPS], TARGET_LINE) = "true" THEN "good"
    ELSE IF file_contains_line(files[PROPS], TARGET_LINE) = "error" THEN "unreadable"
    ELSE "other"

\* What the searches look at in a post directory with these files.
post_state(files) ==
    [svg |-> SVG \in DOMAIN files, transcript |-> TRANSCRIPT \in DOMAIN files,
     props |-> props_state(files)]

NoId == [some |-> FALSE, id |-> <<>>]
SomeId(id) == [some |-> TRUE, id |-> id]

\* The end of get_revise_id and get_transcribe_id with no id given: the post
\* found, the error of the search under its context, or the error that there is
\* none.
found_id(found, context, none) ==
    IF found.ret = "some" THEN [ret |-> "ok", id |-> found.name, err |-> ""]
    ELSE IF found.ret = "err" THEN [ret |-> "err", id |-> <<>>, err |-> context]
    ELSE [ret |-> "err", id |-> <<>>, err |-> none]

\* The id given, checked: posts/<id> is a directory.
given_id(id, dir) ==
    IF id \in DOMAIN dir THEN [ret |-> "ok", id |-> id, err |-> ""]
    ELSE [ret |-> "err", id |-> <<>>, err |-> "No post exists with that id"]

\* The states of the posts of posts/.
post_states(dir) == [n \in DOMAIN dir |-> post_state(dir[n])]

\* A variant that tries every unrevised post before the approved ones.
unrevised_criteria_swapped == <<"unrevised", "good_unrevised">>

\* The criteria get_revise_id searches with.
revise_criteria == unrevised_criteria

\* names::get_revise_id
get_revise_id(id, readable, listing, dir) ==
    IF id.some THEN given_id(id.id, dir)
    ELSE found_id(find_post(readable, listing, revise_criteria, post_states(dir)),
                  "Finding post to revise", "No posts to revise")

\* names::get_transcribe_id
get_transcribe_id(id, readable, listing, dir) ==
    IF id.some THEN given_id(id.id, dir)
    ELSE found_id(find_post(readable, listing, untranscribed_criteria, post_states(dir)),
                  "Finding post to transcribe", "No posts to transcribe")

(***************************************************************************)
(* Location (location.rs).                                                 *)
(***************************************************************************)
SOURCE_DIR == "source"
GENERATED_DIR == "generated"
POSTS_DIR == "posts"
OLD_DIR == "old"
TEMP_DIR == "tmp"
WATERMARKS_FILE == "watermarks"
ICON_FILE == "icon.png"

\* What a path may be: a directory or a regular file (or a symlink to one), or
\* nothing.
PathKinds == {"dir", "file", "missing"}

\* Path::is_dir and Path::is_file
is_dir(kind) == kind = "dir"
is_file(kind) == kind = "file"

\* A variant that does not ask for old/, as the help text leaves it out.
expected_sub_dirs_no_old ==
    << <<SOURCE_DIR, TRUE>>, <<GENERATED_DIR, TRUE>>, <<POSTS_DIR, TRUE>>,
       <<WATERMARKS_FILE, FALSE>>, <<ICON_FILE, FALSE>> >>

\* expected_sub_dirs of check_dirs_exist: (name, is_dir), in the order checked.
expected_sub_dirs ==
    << <<SOURCE_DIR, TRUE>>, <<GENERATED_DIR, TRUE>>, <<POSTS_DIR, TRUE>>, <<OLD_DIR, TRUE>>,
       <<WATERMARKS_FILE, FALSE>>, <<ICON_FILE, FALSE>> >>

is_correct_kind(item, kinds) ==
    IF item[2] THEN is_dir(kinds[item[1]]) ELSE is_file(kinds[item[1]])

LocationOk == [ret |-> "ok", err |-> "", name |-> ""]
LocationErr(err, name) == [ret |-> "err", err |-> err, name |-> name]

\* The loop of check_dirs_exist from item i on: the first item of the wrong kind
\* ends it.
RECURSIVE check_sub_dirs(_, _, _)
check_sub_dirs(items, i, kinds) ==
    IF i > Len(items) THEN LocationOk
    ELSE IF ~is_correct_kind(items[i], kinds)
         THEN LocationErr(IF items[i][2] THEN "Location is missing sub-directory"
                          ELSE "Location is missing file", items[i][1])
    ELSE check_sub_dirs(items, i + 1, kinds)

\* Location::check_dirs_exist: `base` is what the base directory is, `kinds` what
\* each path under it is.
check_dirs_exist(base, kinds) ==
    IF ~is_dir(base) THEN LocationErr("Location is not a directory", "")
    ELSE check_sub_dirs(expected_sub_dirs, 1, kinds)

\* Location::from.  `given`: whether --location was given, and otherwise whether
\* dirs_next::data_dir() finds the standard data location.
Location_from(given, base, kinds) ==
    IF given = "nowhere" THEN LocationErr("Reading standard data location", "")
    ELSE check_dirs_exist(base, kinds)

(***************************************************************************)
(* The recent file (file.rs, names.rs).                                    *)
(***************************************************************************)
DateOk(date) == [ret |-> "ok", date |-> date, err |-> ""]
DateErr(err) == [ret |-> "err", date |-> NoDate, err |-> err]

\* names::get_random_date: the date of a comic drawn from source/ among those in
\* the range (and of a Sunday when asked); a source directory that cannot be
\* listed is the error of read_dir.
get_random_date(readable, listing, range, sunday, index) ==
    IF ~readable THEN DateErr("Reading source directory")
    ELSE IF get_random_directory_entry(listing, ShowPredicate(range, sunday), index).ret = "none"
         THEN DateErr("No comics found")
    ELSE IF get_date_from_path(
                get_random_directory_entry(listing, ShowPredicate(range, sunday), index).name) = NoDate
         THEN DateErr("Found comic file with invalid name")
    ELSE DateOk(get_date_from_path(
                get_random_directory_entry(listing, ShowPredicate(range, sunday), index).name))

\* reader.read_line: the next line of the text with its "\n", and what follows.
NextLine(text) ==
    IF HasMore(text, <<"\n">>) THEN FirstPart(text, <<"\n">>) \o <<"\n">> ELSE text
AfterLine(text) == IF HasMore(text, <<"\n">>) THEN AfterFirst(text, <<"\n">>) ELSE <<>>

IsText(line) == \A i \in 1..Len(line) : line[i] # InvalidByte

\* A variant that skips the lines that are no dates.
RECURSIVE read_last_line_as_date_lenient(_, _)
read_last_line_as_date_lenient(text, date) ==
    IF text = <<>>
    THEN (IF date # NoDate THEN DateOk(date) ELSE DateErr("File is empty"))
    ELSE IF ~IsText(NextLine(text)) THEN DateErr("stream did not contain valid UTF-8")
    ELSE IF ParseDate(trim(NextLine(text))) = NoDate
         THEN read_last_line_as_date_lenient(AfterLine(text), date)
    ELSE read_last_line_as_date_lenient(AfterLine(text), ParseDate(trim(NextLine(text))))

\* The loop of file::read_last_line_as_date over what is left of the file, with
\* the date of the last line read so far (NoDate for None).
RECURSIVE read_last_line_as_date(_, _)
read_last_line_as_date(text, date) ==
    IF text = <<>>
    THEN (IF date # NoDate THEN DateOk(date) ELSE DateErr("File is empty"))
    ELSE IF ~IsText(NextLine(text)) THEN DateErr("stream did not contain valid UTF-8")
    ELSE IF trim(NextLine(text)) = <<>> THEN read_last_line_as_date(AfterLine(text), date)
    ELSE IF ParseDate(trim(NextLine(text))) = NoDate
         THEN DateErr("File contains invalid date")
    ELSE read_last_line_as_date(AfterLine(text), ParseDate(trim(NextLine(text))))

\* names::get_recent_date
get_recent_date(file) ==
    IF file.kind = "missing" THEN DateErr("Recent dates file does not yet exist")
    ELSE IF file.kind = "locked" THEN DateErr("Permission denied")
    ELSE read_last_line_as_date(file.text, NoDate)

(***************************************************************************)
(* show and make --recent (actions.rs, names.rs, file.rs).                 *)
(***************************************************************************)
\* A variant that opens the file without append and writes over it.
append_date_truncating(file, date) == TextFile(FormatDate(date) \o <<"\n">>)

\* file::append_date on a file that can be opened: the file is created when it is
\* missing, and writeln! puts the date and "\n" after its last byte.
append_date(file, date) == TextFile(file.text \o FormatDate(date) \o <<"\n">>)

NoGiven == [some |-> FALSE, date |-> NoDate]
Given(date) == [some |-> TRUE, date |-> date]

\* show up to println!: the date given, or the date in the name of the entry of
\* source/ drawn (`stem`).
show_date(given, stem) ==
    IF given.some THEN DateOk(given.date)
    ELSE IF source = {} THEN DateErr("No comics found")
    ELSE IF ParseDate(stem) = NoDate THEN DateErr("Found comic file with invalid name")
    ELSE DateOk(ParseDate(stem))

\* show from append_date on: what it returns.  `kill`: how pkill ends; `viewer`:
\* the image viewer can be spawned.
show_display(file, kill, viewer) ==
    IF file.kind = "locked" THEN "Failed to append to cache file"
    ELSE IF kill_process_class(kill) # "ok" THEN kill_process_class(kill)
    ELSE IF ~viewer THEN "Spawning image viewer"
    ELSE "ok"

\* The show command.
ShowCmd(given, stem, kill, viewer) ==
    /\ pc = "idle"
    /\ calls < MaxCalls
    /\ calls' = calls + 1
    /\ IF show_date(given, stem).ret # "ok"
       THEN /\ result' = Failed(calls + 1, "show", <<>>, show_date(given, stem).err)
            /\ UNCHANGED recent
       ELSE /\ recent' = IF recent.kind = "locked" THEN recent
                         ELSE append_date(recent, show_date(given, stem).date)
            /\ result' = IF show_display(recent, kill, viewer) = "ok"
                         THEN Succeeded(calls + 1, "show", FormatDate(show_date(given, stem).date))
                         ELSE Failed(calls + 1, "show", FormatDate(show_date(given, stem).date),
                                     show_display(recent, kill, viewer))
    /\ UNCHANGED <<source, iconOk, watermarks, generated, posts, old, tmpDir, tmp,
                   pc, cur, mk, exit, overridden, arg, ans>>

\* names::get_make_date with --recent.
get_make_date(file) ==
    IF get_recent_date(file).ret = "ok" THEN get_recent_date(file)
    ELSE DateErr("Parsing recent date")

\* make --recent up to the date it resolves to.
MakeRecent ==
    /\ pc = "idle"
    /\ ans' = get_make_date(recent)
    /\ ans' # ans
    /\ UNCHANGED <<recent, source, iconOk, watermarks, generated, posts, old, tmpDir, tmp,
                   pc, cur, calls, mk, exit, result, overridden, arg>>

\* The recent files a run starts from: none, an empty one, files show has written,
\* files written by hand (no newline after the last date, a blank line, a date
\* without padding), a file with a line that is no date, and one not to be opened.
ScreenRecents ==
    {NoFile, LockedFile, TextFile(<<>>),
     TextFile(FormatDate(D1) \o <<"\n">>),
     TextFile(FormatDate(D1)),
     TextFile(D2ByHand \o <<"\n">>),
     TextFile(<<"n", "o", "t", "e", "s", "\n">>)}

ScreenInit ==
    /\ source = {FormatDate(D1), FormatDate(D2), <<"n", "o", "t", "e", "s">>}
    /\ iconOk = TRUE
    /\ watermarks = <<Watermark>>
    /\ \E layout \in {l \in Layouts : Ids \subseteq DOMAIN l.posts} :
          /\ generated = layout.generated
          /\ posts = layout.posts
          /\ old = layout.old
          /\ tmpDir = layout.tmpDir
    /\ tmp = EmptyDir
    /\ pc = "idle"
    /\ cur = NoCall
    /\ calls = 0
    /\ mk = NoMake
    /\ exit = "none"
    /\ result = NoResult
    /\ overridden = FALSE
    /\ arg = NoArg
    /\ ans = NoAns
    /\ recent \in ScreenRecents

\* show, make --recent up to its date, and transcribe.
ScreenNext ==
    \/ \E given \in {NoGiven, Given(D3)} :
          \E stem \in (IF given.some THEN {<<>>} ELSE source), kill \in Kills, viewer \in BOOLEAN :
              ShowCmd(given, stem, kill, viewer)
    \/ MakeRecent
    \/ \E id \in Ids, kill \in Kills, viewer \in BOOLEAN : TranscribeCmd(id, kill, viewer)
    \/ \E text \in Edits(cur.shown), success \in BOOLEAN, kill \in Kills :
          EditorExit(text, success, kill)
    \/ TranscribeSave

ScreenSpec == ScreenInit /\ [][ScreenNext]_vars

(***************************************************************************)
(* The functions of the program that read no state, applied on their own:  *)
(* a run draws the arguments and applies the function once.                *)
(***************************************************************************)
\* The location is left alone by these functions.
NoLocation ==
    /\ source = {}
    /\ iconOk = TRUE
    /\ watermarks = <<>>
    /\ generated = EmptyDir
    /\ posts = EmptyDir
    /\ old = EmptyDir
    /\ tmpDir = FALSE
    /\ tmp = EmptyDir
    /\ pc = "idle"
    /\ cur = NoCall
    /\ calls = 0
    /\ mk = NoMake
    /\ exit = "none"
    /\ result = NoResult
    /\ overridden = FALSE
    /\ recent = NoFile

\* The texts of at most two letters over `letters`.
ShortTexts(letters) ==
    {<<>>} \cup {<<a>> : a \in letters} \cup {<<a, b>> : a \in letters, b \in letters}

\* The ids is_id_sunday is tried on: short texts, u32::MAX and its neighbours.
SundayIds ==
    ShortTexts({"0", "1", "3", "5", "6", "+", "-", "a", " "})
        \cup {U32MaxDigits,
              <<"4", "2", "9", "4", "9", "6", "7", "2", "9", "4">>,
              <<"4", "2", "9", "4", "9", "6", "7", "2", "9", "6">>,
              <<"0", "0", "6">>, <<"+", "1", "3">>, <<"2", "0", "2", "4">>}

\* is_id_sunday(id) returns or panics.
SundayCheck ==
    /\ arg.fn = "is_id_sunday"
    /\ ans = NoAns
    /\ \E o \in is_id_sunday(arg.id) : ans' = [ret |-> o]
    /\ UNCHANGED <<recent, source, iconOk, watermarks, generated, posts, old, tmpDir, tmp,
                   pc, cur, calls, mk, exit, result, overridden, arg>>

\* A month and a day written MM-DD.
MonthDayText(month, day) == Pad(month, 2) \o <<"-">> \o Pad(day, 2)

\* The sides DateRange::from_str is tried on: every MM-DD from 00-00 to 13-32.
RangeSides == {MonthDayText(m, d) : m \in 0..13, d \in 0..32}

\* Sides for the two-sided texts.
EndSides ==
    {MonthDayText(3, 1), MonthDayText(3, 15), MonthDayText(6, 1), MonthDayText(6, 10),
     MonthDayText(2, 29), MonthDayText(2, 30), MonthDayText(12, 31), MonthDayText(1, 1),
     <<"3", "-", "1">>, <<"+", "3", "-", "1">>, <<"0", "3">>, <<"a", "-", "1">>, <<>>,
     <<"0", "3", "-", "0", "1", "-", "9", "9">>, <<"0", "3", "-">>, <<"-", "0", "1">>}

RangeTexts ==
    RangeSides
        \cup {a \o <<".", ".">> \o b : a \in EndSides, b \in EndSides \cup RangeSides}
        \cup {a \o <<".", ".">> \o b \o <<".", ".">> \o c :
                a \in {MonthDayText(3, 1)}, b \in {MonthDayText(3, 15), MonthDayText(2, 1)},
                c \in {MonthDayText(4, 1), <<"x">>}}
        \cup {MonthDayText(3, 1) \o <<".", ".", ".">> \o MonthDayText(3, 15)}

\* The ranges contains is tried on.
Ranges ==
    {DateRange_all}
        \cup {DateRange_from_str(t) :
                t \in {MonthDayText(2, 29),
                       MonthDayText(12, 31),
                       MonthDayText(3, 1) \o <<".", ".">> \o MonthDayText(3, 15),
                       MonthDayText(2, 28) \o <<".", ".">> \o MonthDayText(3, 1),
                       MonthDayText(6, 30) \o <<".", ".">> \o MonthDayText(11, 1)}}

\* The years of the dates contains is tried on, and every date of those years.
Years == {1900, 2023, 2024}
CalendarDates ==
    {date \in [year : Years, month : 1..12, day : 1..31] :
        IsValidDate(date.year, date.month, date.day)}

\* range.contains(date) returns or panics.
RangeContains ==
    /\ arg.fn = "DateRange::contains"
    /\ ans = NoAns
    /\ ans' = [ret |-> DateRange_contains(arg.range, arg.date)]
    /\ UNCHANGED <<recent, source, iconOk, watermarks, generated, posts, old, tmpDir, tmp,
                   pc, cur, calls, mk, exit, result, overridden, arg>>

Png(stem) == stem \o <<".", "p", "n", "g">>

\* The names in source/: comics of two Sundays and a Monday, a comic named without
\* padding, a name with a day that does not exist, and files that are no comics.
SourceNames ==
    {Png(FormatDate(D1)), Png(FormatDate(D2)),
     Png(FormatDate([year |-> 2024, month |-> 3, day |-> 10])),
     Png(<<"2", "0", "2", "4", "-", "3", "-", "9">>),
     Png(<<"2", "0", "2", "4", "-", "0", "2", "-", "3", "0">>),
     <<"n", "o", "t", "e", "s">>,
     <<".", "p", "n", "g">>}

\* The names of a listing in some order: from the greatest down, and an entry that
\* could not be read in front when `unread`.
RECURSIVE Reversed(_)
Reversed(q) == IF q = <<>> THEN <<>> ELSE Reversed(Tail(q)) \o <<Head(q)>>

ListingOf(names, unread) ==
    (IF unread THEN <<ErrEntry>> ELSE <<>>)
        \o [i \in 1..Len(sort_dir_entries(names)) |-> Entry(Reversed(sort_dir_entries(names))[i])]

SourceListings == {ListingOf(names, unread) : names \in SUBSET SourceNames, unread \in BOOLEAN}

\* The predicates of a selection: two sets of names, and the show predicate over a
\* few ranges with and without the restriction to Sundays.
Predicates ==
    {[kind |-> "set", pass |-> {}],
     [kind |-> "set", pass |-> {Png(FormatDate(D2)), <<"n", "o", "t", "e", "s">>}]}
        \cup {[kind |-> "show", range |-> r, sunday |-> b] :
                r \in {DateRange_all,
                       DateRange_from_str(MonthDayText(3, 1) \o <<".", ".">> \o MonthDayText(3, 15)),
                       DateRange_from_str(MonthDayText(1, 8))},
                b \in BOOLEAN}

\* get_random_directory_entry returns, with some index drawn.
RandomEntry ==
    /\ arg.fn = "get_random_directory_entry"
    /\ ans = NoAns
    /\ \E index \in EntryIndexes(arg.listing, arg.pred) \cup {1} :
          ans' = get_random_directory_entry(arg.listing, arg.pred, index)
    /\ UNCHANGED <<recent, source, iconOk, watermarks, generated, posts, old, tmpDir, tmp,
                   pc, cur, calls, mk, exit, result, overridden, arg>>

\* The calls of get_random_date: source/ listed with or without an entry that
\* could not be read, or not listable.
RandomDateArgs ==
    {[fn |-> "get_random_date", readable |-> TRUE, listing |-> l, range |-> q.range,
      sunday |-> q.sunday] :
        l \in SourceListings, q \in {p \in Predicates : p.kind = "show"}}
        \cup {[fn |-> "get_random_date", readable |-> FALSE, listing |-> <<>>,
               range |-> DateRange_all, sunday |-> b] : b \in BOOLEAN}

\* get_random_date returns, with some index drawn.
RandomDate ==
    /\ arg.fn = "get_random_date"
    /\ ans = NoAns
    /\ \E index \in EntryIndexes(arg.listing, ShowPredicate(arg.range, arg.sunday)) \cup {1} :
          ans' = get_random_date(arg.readable, arg.listing, arg.range, arg.sunday, index)
    /\ UNCHANGED <<recent, source, iconOk, watermarks, generated, posts, old, tmpDir, tmp,
                   pc, cur, calls, mk, exit, result, overridden, arg>>

\* DateRange::from_str(string) returns.
RangeParse ==
    /\ arg.fn = "DateRange::from_str"
    /\ ans = NoAns
    /\ ans' = DateRange_from_str(arg.string)
    /\ UNCHANGED <<recent, source, iconOk, watermarks, generated, posts, old, tmpDir, tmp,
                   pc, cur, calls, mk, exit, result, overridden, arg>>

\* The names in posts/: their order by bytes is not their order as numbers.
PostNames == {<<"1", "0">>, <<"2">>, <<"9">>}

\* What a post of posts/ may hold.
PostStates ==
    {[svg |-> TRUE, transcript |-> TRUE, props |-> "good"],
     [svg |-> TRUE, transcript |-> FALSE, props |-> "unreadable"],
     [svg |-> FALSE, transcript |-> FALSE, props |-> "good"],
     [svg |-> FALSE, transcript |-> FALSE, props |-> "other"],
     [svg |-> FALSE, transcript |-> FALSE, props |-> "none"],
     [svg |-> FALSE, transcript |-> FALSE, props |-> "unreadable"]}

\* The listings of a set of names: every order, with or without an entry that
\* could not be read in front.
Orders(names) ==
    {q \in [1..Cardinality(names) -> names] : \A i, j \in DOMAIN q : q[i] = q[j] => i = j}

PostListings(names) ==
    {(IF unread THEN <<ErrEntry>> ELSE <<>>) \o [i \in DOMAIN q |-> Entry(q[i])] :
        q \in Orders(names), unread \in BOOLEAN}

\* The calls of find_post: posts/ listed in some order, or not listable.
FindPostArgs ==
    UNION {UNION {{[fn |-> "find_post", readable |-> TRUE, listing |-> l,
                    criteria |-> c, dir |-> dir] :
                      l \in PostListings(names),
                      c \in {untranscribed_criteria, unrevised_criteria}} :
                   dir \in [names -> PostStates]} :
           names \in SUBSET PostNames}
        \cup {[fn |-> "find_post", readable |-> FALSE, listing |-> <<>>,
               criteria |-> c, dir |-> <<>>] :
                 c \in {untranscribed_criteria, unrevised_criteria}}

\* find_post returns.
FindPost ==
    /\ arg.fn = "find_post"
    /\ ans = NoAns
    /\ ans' = find_post(arg.readable, arg.listing, arg.criteria, arg.dir)
    /\ UNCHANGED <<recent, source, iconOk, watermarks, generated, posts, old, tmpDir, tmp,
                   pc, cur, calls, mk, exit, result, overridden, arg>>

\* The post directories the id is looked for among: finished, waiting for a
\* transcript (its props file no text), approved, approved on the second line of
\* props, not approved, without props, with props that cannot be read to the
\* line good or only past it, and a transcript with no vector image.
SearchedPosts ==
    {CompletedPost(FormatDate(D1), (SVG :> <<"<">>) @@ (TRANSCRIPT :> OldTranscript)),
     CompletedPost(FormatDate(D1), (SVG :> <<"<">>) @@ (PROPS :> <<InvalidByte>>)),
     CompletedPost(FormatDate(D1), (PROPS :> GoodProps)),
     CompletedPost(FormatDate(D1),
                   (PROPS :> <<"g", "o", "o", "d", "s", "\n", " ", "g", "o", "o", "d">>)),
     CompletedPost(FormatDate(D1), (PROPS :> <<"g", "o", "o", "d", "s", "\n">>)),
     CompletedPost(FormatDate(D1), EmptyDir),
     CompletedPost(FormatDate(D1), (PROPS :> <<InvalidByte, "\n">> \o GoodProps)),
     CompletedPost(FormatDate(D1), (PROPS :> GoodProps \o <<InvalidByte>>)),
     CompletedPost(FormatDate(D1), (TRANSCRIPT :> OldTranscript))}

\* The calls of get_revise_id and get_transcribe_id: with no id or some id, over
\* posts/ listed from the greatest name down, or not listable.
GetIdArgs ==
    UNION {{[fn |-> f, id |-> id, readable |-> TRUE, dir |-> dir,
             listing |-> ListingOf(names, FALSE)] :
               f \in {"get_revise_id", "get_transcribe_id"},
               id \in {NoId, SomeId(<<"2">>)},
               dir \in [names -> SearchedPosts]} :
           names \in SUBSET PostNames}
        \cup {[fn |-> f, id |-> NoId, readable |-> FALSE, dir |-> EmptyDir, listing |-> <<>>] :
                 f \in {"get_revise_id", "get_transcribe_id"}}

\* get_revise_id or get_transcribe_id returns.
GetId ==
    /\ arg.fn \in {"get_revise_id", "get_transcribe_id"}
    /\ ans = NoAns
    /\ ans' = IF arg.fn = "get_revise_id"
              THEN get_revise_id(arg.id, arg.readable, arg.listing, arg.dir)
              ELSE get_transcribe_id(arg.id, arg.readable, arg.listing, arg.dir)
    /\ UNCHANGED <<recent, source, iconOk, watermarks, generated, posts, old, tmpDir, tmp,
                   pc, cur, calls, mk, exit, result, overridden, arg>>

SubPaths ==
    {SOURCE_DIR, GENERATED_DIR, POSTS_DIR, OLD_DIR, TEMP_DIR, WATERMARKS_FILE, ICON_FILE}

\* The calls of Location::from: the base directory given, standard or not to be
\* found; nothing is under a base that is no directory.
LocationArgs ==
    {[fn |-> "Location::from", given |-> g, base |-> "dir", kinds |-> k] :
        g \in {"given", "standard"}, k \in [SubPaths -> PathKinds]}
        \cup {[fn |-> "Location::from", given |-> g, base |-> b,
               kinds |-> [p \in SubPaths |-> "missing"]] :
                g \in {"given", "standard", "nowhere"}, b \in {"file", "missing"}}

\* Location::from returns.
LocationFrom ==
    /\ arg.fn = "Location::from"
    /\ ans = NoAns
    /\ ans' = Location_from(arg.given, arg.base, arg.kinds)
    /\ UNCHANGED <<recent, source, iconOk, watermarks, generated, posts, old, tmpDir, tmp,
                   pc, cur, calls, mk, exit, result, overridden, arg>>

\* The lines a recent file is made of: dates (one written without padding, one
\* between spaces), blank lines, and lines that are no dates or no text.
RecentLines ==
    {FormatDate(D1), FormatDate(D2), <<" ">> \o FormatDate(D3) \o <<" ">>,
     <<"2", "0", "2", "4", "-", "3", "-", "9">>,
     <<>>, <<" ", "\t">>, <<"n", "o", "t", "e", "s">>, <<InvalidByte>>}

MaxRecentLines == 3

\* The lines of `lines` joined by "\n", with a last "\n" or without.
RECURSIVE JoinLines(_, _)
JoinLines(lines, last) ==
    IF lines = <<>> THEN <<>>
    ELSE IF Len(lines) = 1 THEN Head(lines) \o (IF last THEN <<"\n">> ELSE <<>>)
    ELSE Head(lines) \o <<"\n">> \o JoinLines(Tail(lines), last)

RecentTexts ==
    UNION {{JoinLines(lines, last) : lines \in [1..n -> RecentLines], last \in BOOLEAN} :
           n \in 0..MaxRecentLines}

RecentArgs ==
    {[fn |-> "get_recent_date", file |-> f] :
        f \in {NoFile, LockedFile} \cup {TextFile(t) : t \in RecentTexts}}

\* get_recent_date returns.
RecentDate ==
    /\ arg.fn = "get_recent_date"
    /\ ans = NoAns
    /\ ans' = get_recent_date(arg.file)
    /\ UNCHANGED <<recent, source, iconOk, watermarks, generated, posts, old, tmpDir, tmp,
                   pc, cur, calls, mk, exit, result, overridden, arg>>

FnArgs ==
    {[fn |-> "is_id_sunday", id |-> id] : id \in SundayIds}
        \cup {[fn |-> "DateRange::from_str", string |-> t] : t \in RangeTexts}
        \cup {[fn |-> "DateRange::contains", range |-> r, date |-> d] :
                r \in Ranges, d \in CalendarDates}
        \cup {[fn |-> "get_random_directory_entry", listing |-> l, pred |-> q] :
                l \in SourceListings, q \in Predicates}
        \cup FindPostArgs
        \cup GetIdArgs
        \cup LocationArgs
        \cup RecentArgs
        \cup RandomDateArgs

FnInit == NoLocation /\ arg \in FnArgs /\ ans = NoAns

FnNext ==
    \/ SundayCheck
    \/ RangeParse
    \/ RangeContains
    \/ RandomEntry
    \/ FindPost
    \/ GetId
    \/ LocationFrom
    \/ RecentDate
    \/ RandomDate

FnSpec == FnInit /\ [][FnNext]_vars

(***************************************************************************)
(* The properties.                                                         *)
(***************************************************************************)
\* The date a post directory names: what its date file parses to.
PostDate(post) == IF DATE \in DOMAIN post THEN ParseDate(trim(post[DATE])) ELSE NoDate

\* Some directory under dir names `date`.
HasPostDated(dir, date) == \E id \in DOMAIN dir : PostDate(dir[id]) = date

\* The post directories under generated/ and posts/.
PostDirs ==
    {<<"generated", id, generated[id]>> : id \in DOMAIN generated}
        \cup {<<"posts", id, posts[id]>> : id \in DOMAIN posts}

OnePostPerDate ==
    \A a \in PostDirs, b \in PostDirs :
        (a # b /\ PostDate(a[3]) # NoDate) => PostDate(a[3]) # PostDate(b[3])

\* This step calls make: mk' is what the call returned.
MakeCalled == calls' = calls + 1 /\ mk'.n = calls'

\* The steps of make before its look at generated/ succeed for `date`.
EarlierStepsPass(date) == iconOk /\ watermarks # <<>> /\ FormatDate(date) \in source

EarlierFailures == {"Failed to open icon image", "panic", "Not the date of a real comic"}

IncompleteError == "There already exists an incomplete post with that date"
CompletedError == "There already exists a completed post with that date"

\* C1: as long as no call of make had the override, at most one post directory
\* across generated/ and posts/ names any one date, whatever makes (successful or
\* failed) and promotions have happened.
C1_OnePostPerDate == ~overridden => OnePostPerDate

\* A make without the override was turned down for a post that an earlier make of
\* this run produced and that was promoted since.
C1_Witness ==
    /\ ~overridden
    /\ mk.n = MaxCalls
    /\ mk.ret = CompletedError
    /\ \E id \in DOMAIN posts :
          /\ PostDate(posts[id]) = mk.date
          /\ posts[id][INITIAL] = ConvertImage(FormatDate(mk.date), Watermark)

IsYearMonthDay(text, date) ==
    /\ Len(text) = 10
    /\ text[5] = "-" /\ text[8] = "-"
    /\ \A i \in {1, 2, 3, 4, 6, 7, 9, 10} : IsDigit(text[i])
    /\ DigitsValue(SubSeq(text, 1, 4)) = date.year
    /\ DigitsValue(SubSeq(text, 6, 7)) = date.month
    /\ DigitsValue(SubSeq(text, 9, 10)) = date.day

\* C5: when make has returned successfully (from the make command or from revise),
\* the directory generated/<name> it left holds exactly a date file with the date
\* written YYYY-MM-DD, an empty title file, the primary image and a duplicate image
\* with the bytes of the primary image; after the make command that directory is
\* what is found under generated/<name> for as long as the post is not promoted.
C5_MadePost ==
    mk.ret = "ok" =>
        /\ DOMAIN mk.dir = {DATE, TITLE, INITIAL, DUPLICATE}
        /\ IsYearMonthDay(mk.dir[DATE], mk.date)
        /\ mk.dir[TITLE] = <<>>
        /\ \E w \in {Watermark} : mk.dir[INITIAL] = ConvertImage(mk.dir[DATE], w)
        /\ mk.dir[DUPLICATE] = mk.dir[INITIAL]
        /\ (result.op = "make" /\ result.n = mk.n /\ mk.name \in DOMAIN generated)
              => generated[mk.name] = mk.dir

\* The make command has just made a post, still under generated/.
C5_Witness ==
    /\ mk.ret = "ok"
    /\ result.op = "make" /\ result.n = mk.n /\ result.status = "ok"
    /\ mk.name \in DOMAIN generated

OptionalFiles == {TRANSCRIPT, PROPS, SPECIAL, SVG}

\* C6: when revise asks whether to move the old post (its copy-forward step has
\* succeeded), generated/<id>/title exists with the content of posts/<id>/title and
\* each of transcript, props, special and esperanto.svg exists under
\* generated/<id> exactly if it exists under posts/<id>, with its content; and a
\* revise whose make succeeded for a post with no title file fails with the
\* missing-title error and does not go on to ask.
C6_CopyForward ==
    /\ [](pc = "confirm_move" =>
            /\ cur.id \in DOMAIN generated /\ cur.id \in DOMAIN posts
            /\ TITLE \in DOMAIN posts[cur.id]
            /\ TITLE \in DOMAIN generated[cur.id]
            /\ generated[cur.id][TITLE] = posts[cur.id][TITLE]
            /\ \A f \in OptionalFiles :
                  /\ f \in DOMAIN generated[cur.id] <=> f \in DOMAIN posts[cur.id]
                  /\ f \in DOMAIN posts[cur.id] => generated[cur.id][f] = posts[cur.id][f])
    /\ [][(MakeCalled /\ mk'.skip /\ mk'.ret = "ok" /\ TITLE \notin DOMAIN posts[mk'.name]) =>
            /\ pc' = "idle"
            /\ result' = [n |-> calls', op |-> "revise", id |-> mk'.name,
                          status |-> "err", err |-> "Post is missing title file"]]_vars

\* revise asks about a post that has a title, a transcript, a special marker and a
\* vector image but no props: all but props were copied.
C6_Witness ==
    /\ pc = "confirm_move"
    /\ DOMAIN posts[cur.id] \cap OptionalFiles = {TRANSCRIPT, SPECIAL, SVG}
    /\ generated[cur.id][SVG] = posts[cur.id][SVG]
    /\ generated[cur.id][TITLE] = TitleText

\* C7: when revise gets the answer to "Move old post to old directory?" while
\* old/<id> exists, it fails with the already-revised error and leaves posts/ and
\* old/ as they were.
C7_AlreadyRevised ==
    [][(pc = "confirm_move" /\ pc' # "confirm_move" /\ cur.id \in DOMAIN old) =>
          /\ result' = [n |-> calls, op |-> "revise", id |-> cur.id, status |-> "err",
                        err |-> "unimplemented: post already revised"]
          /\ pc' = "idle"
          /\ posts' = posts
          /\ old' = old]_vars

\* revise has failed at the move, with the post still under posts/ and its earlier
\* version still under old/.
C7_Witness ==
    /\ result.op = "revise"
    /\ result.err = "unimplemented: post already revised"
    /\ result.id \in DOMAIN posts
    /\ result.id \in DOMAIN old
    /\ old[result.id] # posts[result.id]

\* A step that changes old/ or takes a directory away from posts/.
MovesPost == old' # old \/ \E id \in DOMAIN posts : id \notin DOMAIN posts'

\* C8: posts/<id> is moved to old/<id> only by the confirmed move of a revise whose
\* make succeeded for that id and whose copies all succeeded, and then old/<id> is
\* the directory that was posts/<id>; every step in which revise fails leaves
\* posts/ and old/ as they were, and so does every step of revise before the move.
C8_MoveAfterAll ==
    /\ [][MovesPost =>
            /\ pc = "confirm_move" /\ pc' = "wait"
            /\ mk.n = calls /\ mk.ret = "ok" /\ mk.name = cur.id /\ mk.skip
            /\ mk.date = PostDate(posts[cur.id])
            /\ \A f \in {TITLE} \cup (DOMAIN posts[cur.id] \cap OptionalFiles) :
                  generated[cur.id][f] = posts[cur.id][f]
            /\ cur.id \notin DOMAIN old
            /\ old' = Put(old, cur.id, posts[cur.id])
            /\ posts' = Remove(posts, cur.id)]_vars
    /\ [][(result' # result /\ result'.op = "revise" /\ result'.status # "ok") =>
            (posts' = posts /\ old' = old)]_vars
    /\ [][(pc = "idle" /\ pc' = "confirm_move") => (posts' = posts /\ old' = old)]_vars

\* revise has moved the post: it is under old/ and no longer under posts/.
C8_Witness ==
    /\ pc = "wait"
    /\ cur.id \in DOMAIN old
    /\ cur.id \notin DOMAIN posts
    /\ mk.ret = "ok" /\ mk.name = cur.id

\* C9: revise leaves its wait only in a state where posts/<id> exists, and then it
\* returns successfully; while posts/<id> does not exist it keeps waiting, however
\* long; and once posts/<id> exists it does return successfully.
C9_WaitForPromotion ==
    /\ [][(pc = "wait" /\ pc' # "wait") =>
            /\ cur.id \in DOMAIN posts /\ cur.id \in DOMAIN posts'
            /\ pc' = "idle"
            /\ result' = [n |-> calls, op |-> "revise", id |-> cur.id, status |-> "ok",
                          err |-> ""]]_vars
    /\ [][(pc = "wait" /\ cur.id \notin DOMAIN posts') => pc' = "wait"]_vars
    /\ \A id \in Ids :
          (pc = "wait" /\ cur.id = id /\ id \in DOMAIN posts)
              ~> (pc = "idle" /\ result.op = "revise" /\ result.id = id /\ result.status = "ok")

\* revise has returned successfully: the post is under old/ and the promoted one
\* under posts/.
C9_Witness ==
    /\ pc = "idle"
    /\ result.op = "revise" /\ result.status = "ok"
    /\ result.id \in DOMAIN old
    /\ result.id \in DOMAIN posts
    /\ result.id \notin DOMAIN generated

\* The editor exits in this step, leaving in the working file what it was shown.
EditorLeftUnchanged == pc = "editor" /\ pc' # "editor" /\ tmp'[cur.id] = cur.shown

\* C10 (as amended): when the editor exits successfully and the working file is
\* byte for byte what was shown, transcribe returns successfully without asking,
\* unless pkill cannot be run to close the viewer (then it fails with that error),
\* and posts/ is left as it was (no transcript is created or modified); when the
\* editor exits unsuccessfully with the file unchanged, posts/ is left as it was
\* too and transcribe fails.
C10_NoChangesMade ==
    [][EditorLeftUnchanged =>
          /\ posts' = posts
          /\ pc' = "idle"
          /\ exit' = "success"
                => \/ result' = [n |-> calls, op |-> "transcribe", id |-> cur.id,
                                 status |-> "ok", err |-> ""]
                   \/ result' = [n |-> calls, op |-> "transcribe", id |-> cur.id,
                                 status |-> "err", err |-> "Killing image viewer"]
          /\ exit' # "success"
                => result' = [n |-> calls, op |-> "transcribe", id |-> cur.id,
                              status |-> "err", err |-> "Editor did not exit successfully"]]_vars

\* transcribe has returned successfully from an editor that left the template as
\* it was, and the post has no transcript.
C10_Witness ==
    /\ pc = "idle"
    /\ result.op = "transcribe" /\ result.status = "ok"
    /\ exit = "success"
    /\ result.id \in DOMAIN tmp
    /\ tmp[result.id] \in {SundayTemplate, WeekdayTemplate}
    /\ TRANSCRIPT \notin DOMAIN posts[result.id]

\* C10 as stated: success whenever the working file is what was shown.
C10_AsStated ==
    [][EditorLeftUnchanged =>
          /\ posts' = posts
          /\ pc' = "idle"
          /\ result' = [n |-> calls, op |-> "transcribe", id |-> cur.id,
                        status |-> "ok", err |-> ""]]_vars

\* C11: when the editor exits successfully with the working file as it was shown,
\* tmp/ and posts/ are after the call what they were before it: no tmp/ created,
\* no tmp/transcript.<id> left or changed.
C11_NoFilesystemMutation ==
    [][(EditorLeftUnchanged /\ exit' = "success") =>
          /\ posts' = posts
          /\ tmpDir' = cur.before.tmpDir
          /\ tmp' = cur.before.tmp]_vars

\* n lines of "---" joined by newlines.
RECURSIVE PlaceholderLines(_)
PlaceholderLines(n) ==
    IF n = 1 THEN <<"-", "-", "-">>
    ELSE PlaceholderLines(n - 1) \o <<"\n", "-", "-", "-">>

\* C12: when transcribe opens the editor, the working file is what it shows: the
\* content of posts/<id>/transcript if that file exists, and otherwise six lines of
\* "---" if (id + 1) mod 7 = 0 and two lines of "---" if not.
C12_WorkingFile ==
    [][(pc = "idle" /\ pc' = "editor") =>
          /\ tmp'[cur'.id] = cur'.shown
          /\ cur'.shown =
                IF TRANSCRIPT \in DOMAIN posts[cur'.id] THEN posts[cur'.id][TRANSCRIPT]
                ELSE IF (DigitsValue(cur'.id) + 1) % 7 = 0 THEN PlaceholderLines(6)
                ELSE PlaceholderLines(2)]_vars

\* The editor is open on the six-line template of a Sunday post with no transcript.
C12_Witness ==
    /\ pc = "editor"
    /\ TRANSCRIPT \notin DOMAIN posts[cur.id]
    /\ (DigitsValue(cur.id) + 1) % 7 = 0
    /\ Len(tmp[cur.id]) = 23

\* The transcript of a post that stays under posts/ is created or changed.
TranscriptWritten(id) ==
    /\ id \in DOMAIN posts /\ id \in DOMAIN posts'
    /\ TRANSCRIPT \in DOMAIN posts'[id]
    /\ TRANSCRIPT \in DOMAIN posts[id] => posts'[id][TRANSCRIPT] # posts[id][TRANSCRIPT]

\* C13: posts/<id>/transcript is written only by the step that follows the
\* confirmation of a transcribe of that id whose editor exited successfully with a
\* working file different from what was shown; after that step the transcript is
\* the edited content, tmp/transcript.<id> is gone and transcribe has succeeded.
\* transcribe asks for the confirmation only with a file that differs.
C13_SaveAfterConfirm ==
    /\ [][\A id \in Ids : TranscriptWritten(id) =>
            /\ pc = "confirm_save" /\ cur.op = "transcribe" /\ cur.id = id
            /\ exit = "success"
            /\ tmp[id] # cur.shown
            /\ posts'[id][TRANSCRIPT] = tmp[id]
            /\ id \notin DOMAIN tmp'
            /\ result' = [n |-> calls, op |-> "transcribe", id |-> id, status |-> "ok",
                          err |-> ""]]_vars
    /\ [](pc = "confirm_save" => (tmp[cur.id] # cur.shown /\ exit = "success"))

\* A transcript was saved: it holds the edited text and the working file is gone.
C13_Witness ==
    /\ result.op = "transcribe" /\ result.status = "ok"
    /\ TRANSCRIPT \in DOMAIN posts[result.id]
    /\ posts[result.id][TRANSCRIPT] = NewTranscript
    /\ result.id \notin DOMAIN tmp

\* C14: for every id that is a text of decimal digits with value n, is_id_sunday
\* returns true exactly when (n + 1) mod 7 = 0, and for every id that is neither
\* such a text nor one with a sign in front it returns the error.
C14_SundayRule ==
    (arg.fn = "is_id_sunday" /\ ans # NoAns) =>
        IF AllDigits(arg.id)
        THEN ans.ret = (IF (Mod7(arg.id) + 1) % 7 = 0 THEN "sunday" ELSE "weekday")
        ELSE (arg.id = <<>> \/ Head(arg.id) # "+") => ans.ret = "Post id is not an integer"

\* The place of a month and day in the year, for comparing them.
Ordinal(md) == 100 * md.month + md.day

\* The months and days of the calendar of a leap year.
LeapYearDays == <<31, 29, 31, 30, 31, 30, 31, 31, 30, 31, 30, 31>>
CalendarDays == {<<m, d>> \in (1..12) \X (1..31) : d <= LeapYearDays[m]}

Parsed == arg.fn = "DateRange::from_str" /\ ans # NoAns

\* t is written MM-DD: two digits, "-", two digits.
IsMonthDayText(t) ==
    Len(t) = 5 /\ t[3] = "-" /\ \A i \in {1, 2, 4, 5} : IsDigit(t[i])

\* The month and the day that a text MM-DD names.
Named(t) == <<DigitsValue(SubSeq(t, 1, 2)), DigitsValue(SubSeq(t, 4, 5))>>

\* t is written MM-DD..MM-DD.
IsTwoSided(t) ==
    /\ Len(t) = 12
    /\ t[6] = "." /\ t[7] = "."
    /\ IsMonthDayText(SubSeq(t, 1, 5))
    /\ IsMonthDayText(SubSeq(t, 8, 12))

StartNamed(t) == Named(SubSeq(t, 1, 5))
EndNamed(t) == Named(SubSeq(t, 8, 12))

\* C15: every DateRange that from_str returns, and all(), has from <= to in (month,
\* day) order; the text A..B with A later in the year than B fails with 'End date
\* must be after start date', and with A equal to B it succeeds with from = to = A.
C15_RangeOrdered ==
    /\ Ordinal(DateRange_all.from) <= Ordinal(DateRange_all.to)
    /\ (Parsed /\ ans.ret = "ok") =>
          (ans.from.ok /\ ans.to.ok /\ Ordinal(ans.from) <= Ordinal(ans.to))
    /\ (Parsed /\ IsTwoSided(arg.string)
           /\ StartNamed(arg.string) \in CalendarDays /\ EndNamed(arg.string) \in CalendarDays) =>
          /\ (StartNamed(arg.string)[1] > EndNamed(arg.string)[1]
                \/ (StartNamed(arg.string)[1] = EndNamed(arg.string)[1]
                      /\ StartNamed(arg.string)[2] > EndNamed(arg.string)[2]))
                => ans.ret = "End date must be after start date"
          /\ StartNamed(arg.string) = EndNamed(arg.string)
                => (ans.ret = "ok" /\ ans.from = ans.to
                    /\ <<ans.from.month, ans.from.day>> = StartNamed(arg.string))

\* "06-10..06-01" was turned down for its order.
C15_Witness ==
    /\ Parsed
    /\ arg.string = MonthDayText(6, 10) \o <<".", ".">> \o MonthDayText(6, 1)
    /\ ans.ret = "End date must be after start date"

\* C16 (as amended): a side MM-DD, as the start or as the end of a range, is
\* accepted exactly when the month is in 1..12 and the day is a day of that month
\* in a leap year (February has 29 days): "02-29" is accepted, and "02-30", day
\* 0, month 0, month 13 and day 31 of a 30-day month are rejected.
C16_MonthDayValid ==
    /\ (Parsed /\ IsMonthDayText(arg.string)) =>
          IF Named(arg.string) \in CalendarDays
          THEN ans.ret = "ok" /\ <<ans.from.month, ans.from.day>> = Named(arg.string)
                  /\ ans.to = ans.from
          ELSE ans.ret = "Invalid start date"
    /\ (Parsed /\ IsTwoSided(arg.string) /\ StartNamed(arg.string) = <<1, 1>>) =>
          IF EndNamed(arg.string) \in CalendarDays
          THEN ans.ret = "ok" /\ <<ans.to.month, ans.to.day>> = EndNamed(arg.string)
          ELSE ans.ret = "Invalid end date"

\* "02-29" was accepted as a range of one day.
C16_Witness ==
    /\ Parsed
    /\ arg.string = MonthDayText(2, 29)
    /\ ans.ret = "ok"
    /\ ans.from.day = 29

\* C16 as stated: February has 28 days, so "02-29" is rejected.
C16_AsStated ==
    (Parsed /\ IsMonthDayText(arg.string)) =>
        (ans.ret = "ok" <=>
            (Named(arg.string) \in CalendarDays /\ Named(arg.string) # <<2, 29>>))

\* t is an integer in digits, with or without "+" in front.
IsInteger(t) == AllDigits(t) \/ (t # <<>> /\ Head(t) = "+" /\ AllDigits(Tail(t)))

\* t is two integers with "-" between them.
IsSide(t) ==
    \E i \in 1..Len(t) :
        t[i] = "-" /\ IsInteger(SubSeq(t, 1, i - 1)) /\ IsInteger(SubSeq(t, i + 1, Len(t)))

\* t is a side, or two sides with ".." between them.
IsRangeText(t) ==
    \/ IsSide(t)
    \/ \E i \in 1..(Len(t) - 1) :
          /\ t[i] = "." /\ t[i + 1] = "."
          /\ IsSide(SubSeq(t, 1, i - 1))
          /\ IsSide(SubSeq(t, i + 2, Len(t)))

\* C18: DateRange::from_str succeeds only on a text of the form MM-DD or
\* MM-DD..MM-DD, each side two integers with one "-" between them: a text with a
\* third ".." part or a side with a third "-" part is rejected.
C18_OnlyTwoForms == (Parsed /\ ans.ret = "ok") => IsRangeText(arg.string)

\* C17: range.contains(d) is true exactly when from <= (month(d), day(d)) <= to in
\* (month, day) order, and false otherwise (it never panics); the answer is the
\* same for the same month and day in every other year that has that day; and
\* all() contains d.
C17_Contains ==
    (arg.fn = "DateRange::contains" /\ ans # NoAns) =>
        /\ ans.ret =
              (IF Ordinal(arg.range.from) <= Ordinal(arg.date)
                     /\ Ordinal(arg.date) <= Ordinal(arg.range.to)
               THEN "true" ELSE "false")
        /\ \A y \in Years :
              IsValidDate(y, arg.date.month, arg.date.day) =>
                  DateRange_contains(arg.range, [arg.date EXCEPT !.year = y]) = ans.ret
        /\ DateRange_contains(DateRange_all, arg.date) = "true"

\* 29 February 2024 was found in the range 02-28..03-01.
C17_Witness ==
    /\ arg.fn = "DateRange::contains"
    /\ arg.date = [year |-> 2024, month |-> 2, day |-> 29]
    /\ arg.range.from.day = 28 /\ arg.range.to.month = 3
    /\ ans = [ret |-> "true"]

\* The entry `name` satisfies the predicate of a selection.
Holds(pred, name) ==
    IF pred.kind = "show"
    THEN /\ ParseDate(file_stem(name)) # NoDate
         /\ Ordinal(pred.range.from) <= Ordinal(ParseDate(file_stem(name)))
         /\ Ordinal(ParseDate(file_stem(name))) <= Ordinal(pred.range.to)
         /\ pred.sunday => weekday(ParseDate(file_stem(name))) = 0
    ELSE name \in pred.pass

Selected == arg.fn = "get_random_directory_entry" /\ ans # NoAns

\* C19: get_random_directory_entry returns None exactly when no entry read from
\* the directory passes the predicate, and otherwise an entry of the directory
\* that passes it; with the predicate of get_random_date an entry whose stem does
\* not parse as a %Y-%m-%d date is never returned, and no listing makes the
\* selection fail.
C19_RandomEntry ==
    Selected =>
        /\ ans.ret \in {"none", "some"}
        /\ ans.ret = "none" <=> {n \in Flatten(arg.listing) : Holds(arg.pred, n)} = {}
        /\ ans.ret = "some" =>
              /\ \E i \in 1..Len(arg.listing) : arg.listing[i] = Entry(ans.name)
              /\ Holds(arg.pred, ans.name)
              /\ arg.pred.kind = "show" => ParseDate(file_stem(ans.name)) # NoDate

\* With the Sunday restriction and the range 03-01..03-15, the comic of Sunday
\* 2024-03-10 was drawn from a directory that also holds a Saturday of that range,
\* a file that is no comic and an entry that could not be read.
C19_Witness ==
    /\ Selected
    /\ arg.pred.kind = "show" /\ arg.pred.sunday /\ arg.pred.range.from.month = 3
    /\ \E i \in 1..Len(arg.listing) : arg.listing[i] = ErrEntry
    /\ \E i \in 1..Len(arg.listing) : arg.listing[i].name = <<"n", "o", "t", "e", "s">>
    /\ \E i \in 1..Len(arg.listing) :
          arg.listing[i].name = Png(<<"2", "0", "2", "4", "-", "3", "-", "9">>)
    /\ ans = [ret |-> "some", name |-> Png(FormatDate([year |-> 2024, month |-> 3, day |-> 10]))]

\* The entries read that a criterion holds of, and those it fails on.
TrueOf(tag) == {n \in Flatten(arg.listing) : criterion(tag, arg.dir[n]) = "true"}
ErrorOf(tag) == {n \in Flatten(arg.listing) : criterion(tag, arg.dir[n]) = "error"}
DecidingOf(tag) == TrueOf(tag) \cup ErrorOf(tag)

Searched == arg.fn = "find_post" /\ ans # NoAns /\ arg.readable

\* C20: a post search with the ordered criteria [P1, P2] over a directory that can
\* be listed returns the entry with the least file name among those P1 holds of,
\* even when P2 alone holds of an entry with a lesser name, provided evaluating P1
\* fails on no entry with a lesser name still; P2 is consulted only when P1 holds
\* of no entry and fails on none; the result is None exactly when no criterion
\* holds of or fails on any entry; a criterion failing on an entry before any
\* entry it holds of makes the search fail. The result is a function of the set of
\* entries, whatever the order in which the listing yields them.
C20_PostSearch ==
    Searched =>
        /\ \A k \in 1..Len(arg.criteria) :
              (/\ \A j \in 1..(k - 1) : DecidingOf(arg.criteria[j]) = {}
               /\ DecidingOf(arg.criteria[k]) # {})
                 => IF LeastName(DecidingOf(arg.criteria[k])) \in TrueOf(arg.criteria[k])
                    THEN ans = [ret |-> "some", name |-> LeastName(TrueOf(arg.criteria[k]))]
                    ELSE ans.ret = "err"
        /\ ans.ret = "none" <=> \A k \in 1..Len(arg.criteria) : DecidingOf(arg.criteria[k]) = {}

\* The second criterion alone holds of the entry the listing yields first, which
\* has a lesser name than the entry returned, one the first criterion holds of.
C20_Witness ==
    /\ Searched
    /\ Len(arg.criteria) = 2
    /\ ans.ret = "some"
    /\ ans.name \in TrueOf(arg.criteria[1])
    /\ arg.listing # <<>> /\ arg.listing[1].ok
    /\ NameLess(arg.listing[1].name, ans.name)
    /\ arg.listing[1].name \in TrueOf(arg.criteria[2]) \ TrueOf(arg.criteria[1])

\* C20 as stated: the least entry the first criterion holds of whenever there is
\* one, the second criterion otherwise, None only when no criterion holds of any
\* entry.
C20_AsStated ==
    Searched =>
        /\ \A k \in 1..Len(arg.criteria) :
              (/\ \A j \in 1..(k - 1) : TrueOf(arg.criteria[j]) = {}
               /\ TrueOf(arg.criteria[k]) # {})
                 => ans = [ret |-> "some", name |-> LeastName(TrueOf(arg.criteria[k]))]
        /\ ans.ret = "none" => \A k \in 1..Len(arg.criteria) : TrueOf(arg.criteria[k]) = {}

\* The places in a text where a line starts, and the line that starts there.
LineStarts(text) == {i \in 1..Len(text) : i = 1 \/ text[i - 1] = "\n"}
LineAt(text, i) == FirstPart(SubSeq(text, i, Len(text)), <<"\n">>)

\* The lines of a text that are the word good, and those that are no text.
GoodLines(text) == {i \in LineStarts(text) : trim(LineAt(text, i)) = TARGET_LINE}
BadLines(text) ==
    {i \in LineStarts(text) : \E k \in 1..Len(LineAt(text, i)) : LineAt(text, i)[k] = InvalidByte}

\* The props file holds the line good.
HoldsGood(files) == PROPS \in DOMAIN files /\ GoodLines(files[PROPS]) # {}

\* Reading the props file reaches a line good, or fails before it reaches one.
ReadsGood(files) ==
    /\ PROPS \in DOMAIN files
    /\ \E i \in GoodLines(files[PROPS]) : \A j \in BadLines(files[PROPS]) : i < j
ReadFails(files) ==
    /\ PROPS \in DOMAIN files
    /\ \E j \in BadLines(files[PROPS]) : \A i \in GoodLines(files[PROPS]) : j < i

\* The posts of the directory searched that a condition holds of.
Unrevised == {n \in DOMAIN arg.dir : SVG \notin DOMAIN arg.dir[n]}
Approved == {n \in Unrevised : ReadsGood(arg.dir[n])}
Unread == {n \in Unrevised : ReadFails(arg.dir[n])}
Untranscribed ==
    {n \in DOMAIN arg.dir : SVG \in DOMAIN arg.dir[n] /\ TRANSCRIPT \notin DOMAIN arg.dir[n]}

Chosen(fn) == arg.fn = fn /\ ans # NoAns /\ ~arg.id.some /\ arg.readable

IdOk(id) == [ret |-> "ok", id |-> id, err |-> ""]
IdErr(err) == [ret |-> "err", id |-> <<>>, err |-> err]

\* C21: with no id given and posts/ listable, revise selects the first post by
\* name that has no vector image and whose props file reads up to a line good,
\* unless reading the props file of a post without vector image that sorts before
\* it fails (then the search fails with that error); when no props file of a post
\* without vector image reads to good or fails, it selects the first post with no
\* vector image, and fails with No posts to revise when there is none.  transcribe
\* selects the first post with the vector image and no transcript, else fails with
\* No posts to transcribe.  No post with the vector image is selected for revision,
\* none with a transcript for transcription.
C21_SelectedPost ==
    /\ Chosen("get_revise_id") =>
          /\ Approved \cup Unread # {} =>
                IF LeastName(Approved \cup Unread) \in Approved
                THEN ans = IdOk(LeastName(Approved))
                ELSE ans = IdErr("Finding post to revise")
          /\ (Approved \cup Unread = {} /\ Unrevised # {}) => ans = IdOk(LeastName(Unrevised))
          /\ Unrevised = {} => ans = IdErr("No posts to revise")
          /\ ans.ret = "ok" => SVG \notin DOMAIN arg.dir[ans.id]
    /\ Chosen("get_transcribe_id") =>
          /\ Untranscribed # {} => ans = IdOk(LeastName(Untranscribed))
          /\ Untranscribed = {} => ans = IdErr("No posts to transcribe")
          /\ ans.ret = "ok" => TRANSCRIPT \notin DOMAIN arg.dir[ans.id]

\* An approved post is selected for revision over a post with a lesser name that
\* is not approved, next to a post with the vector image.
C21_Witness ==
    /\ Chosen("get_revise_id")
    /\ ans.ret = "ok"
    /\ ans.id \in Approved
    /\ \E n \in Unrevised \ Approved : NameLess(n, ans.id)
    /\ \E n \in DOMAIN arg.dir : SVG \in DOMAIN arg.dir[n]

\* C21 as stated: the first post with no vector image whose props file holds the
\* line good, else the first with no vector image, else No posts to revise.
C21_AsStated ==
    /\ Chosen("get_revise_id") =>
          /\ {n \in Unrevised : HoldsGood(arg.dir[n])} # {} =>
                ans = IdOk(LeastName({n \in Unrevised : HoldsGood(arg.dir[n])}))
          /\ ({n \in Unrevised : HoldsGood(arg.dir[n])} = {} /\ Unrevised # {}) =>
                ans = IdOk(LeastName(Unrevised))
          /\ Unrevised = {} => ans = IdErr("No posts to revise")
          /\ ans.ret = "ok" => SVG \notin DOMAIN arg.dir[ans.id]
    /\ Chosen("get_transcribe_id") =>
          /\ Untranscribed # {} => ans = IdOk(LeastName(Untranscribed))
          /\ Untranscribed = {} => ans = IdErr("No posts to transcribe")
          /\ ans.ret = "ok" => TRANSCRIPT \notin DOMAIN arg.dir[ans.id]

Resolved == arg.fn = "Location::from" /\ ans # NoAns

\* The sub-paths in the order the claim gives, and those of the wrong kind.
CheckedOrder ==
    <<SOURCE_DIR, GENERATED_DIR, POSTS_DIR, OLD_DIR, WATERMARKS_FILE, ICON_FILE>>
WrongKind(name) ==
    IF name \in {WATERMARKS_FILE, ICON_FILE} THEN arg.kinds[name] # "file"
    ELSE arg.kinds[name] # "dir"
Violated == {i \in 1..Len(CheckedOrder) : WrongKind(CheckedOrder[i])}

\* C22: Location resolution succeeds exactly when the base directory is found and
\* is a directory, source, generated, posts and old are directories and watermarks
\* and icon.png are regular files, whatever tmp is; when the base is a directory
\* and some of the six is not of its kind, the error names the first such one in
\* the order source, generated, posts, old, watermarks, icon.png and no later one;
\* when the base is no directory the error is about the location itself.
C22_LocationChecked ==
    Resolved =>
        /\ ans.ret = "ok" <=> (arg.given # "nowhere" /\ arg.base = "dir" /\ Violated = {})
        /\ (arg.given # "nowhere" /\ arg.base = "dir" /\ Violated # {}) =>
              /\ ans.ret = "err"
              /\ \E i \in Violated :
                    /\ \A j \in Violated : i <= j
                    /\ ans.name = CheckedOrder[i]
        /\ (arg.given # "nowhere" /\ arg.base # "dir") =>
              ans = LocationErr("Location is not a directory", "")

\* posts is missing and icon.png too: the error names posts.
C22_Witness ==
    /\ Resolved
    /\ ans.ret = "err"
    /\ ans.name = POSTS_DIR
    /\ arg.kinds[POSTS_DIR] = "missing"
    /\ arg.kinds[ICON_FILE] = "missing"

\* C22 as stated: success only when tmp is a directory too.
C22_AsStated ==
    Resolved =>
        /\ ans.ret = "ok" =>
              /\ arg.base = "dir"
              /\ \A name \in {SOURCE_DIR, GENERATED_DIR, POSTS_DIR, OLD_DIR, TEMP_DIR} :
                    arg.kinds[name] = "dir"
              /\ \A name \in {WATERMARKS_FILE, ICON_FILE} : arg.kinds[name] = "file"
        /\ (ans.ret # "ok" /\ Violated # {} /\ arg.base = "dir" /\ arg.given # "nowhere") =>
              \E i \in Violated :
                  /\ \A j \in Violated : i <= j
                  /\ ans.name = CheckedOrder[i]

RecentRead == arg.fn = "get_recent_date" /\ ans # NoAns /\ arg.file.kind = "text"

\* The lines of the file read that are not blank, and those that are dates.
NonBlankLines ==
    {i \in LineStarts(arg.file.text) : trim(LineAt(arg.file.text, i)) # <<>>}
DateLines ==
    {i \in LineStarts(arg.file.text) : ParseDate(trim(LineAt(arg.file.text, i))) # NoDate}
LastOf(places) == CHOOSE i \in places : \A j \in places : j <= i

\* C23: the most recent date read from the recent file is the date on its last
\* non-blank line, provided every non-blank line of the file is a valid date:
\* blank lines are skipped, a non-blank line that is no valid YYYY-MM-DD date makes
\* the read fail wherever it stands, and so does a file with no non-blank line.
C23_LastDate ==
    RecentRead =>
        /\ ans.ret = "ok" <=> (NonBlankLines # {} /\ NonBlankLines = DateLines)
        /\ ans.ret = "ok" =>
              ans.date = ParseDate(trim(LineAt(arg.file.text, LastOf(NonBlankLines))))
        /\ NonBlankLines = {} => ans = DateErr("File is empty")

\* The date of the last line is read past a blank line and an earlier date.
C23_Witness ==
    /\ RecentRead
    /\ ans.ret = "ok"
    /\ Cardinality(DateLines) >= 2
    /\ Cardinality(LineStarts(arg.file.text)) > Cardinality(NonBlankLines)
    /\ \E i \in DateLines : ParseDate(trim(LineAt(arg.file.text, i))) # ans.date

\* C23 as stated: the date of the last valid line, lines that are no dates
\* skipped; a failure only when no line is a valid date (over files that are text).
C23_AsStated ==
    (RecentRead /\ IsText(arg.file.text)) =>
        /\ DateLines # {} =>
              ans = DateOk(ParseDate(trim(LineAt(arg.file.text, LastOf(DateLines)))))
        /\ ans.ret = "err" => DateLines = {}

\* The lines of a text, each without its "\n".
RECURSIVE SplitLines(_)
SplitLines(text) ==
    IF text = <<>> THEN <<>>
    ELSE <<FirstPart(text, <<"\n">>)>>
            \o (IF HasMore(text, <<"\n">>) THEN SplitLines(AfterFirst(text, <<"\n">>)) ELSE <<>>)

\* The recent file holds nothing but lines that are valid dates.
OnlyDateLines(file) ==
    /\ file.kind # "locked"
    /\ \A i \in 1..Len(SplitLines(file.text)) : ParseDate(trim(SplitLines(file.text)[i])) # NoDate

\* A call of show that got as far as spawning the image viewer.
ShowDisplayed ==
    /\ calls' = calls + 1
    /\ result'.n = calls' /\ result'.op = "show"
    /\ result'.err \in {"", "Spawning image viewer"}

\* The recent file is missing or empty, or its last line ends with a newline.
EndsLines(file) == file.text = <<>> \/ file.text[Len(file.text)] = "\n"

EditorFails == pc = "editor" /\ pc' # "editor" /\ exit' = "failure"

\* C25: when the editor exits with a non-zero status, transcribe fails with the
\* editor's error, posts/ is left as it was, nothing is asked and the working file
\* is not moved; and a step of show or transcribe in which pkill exits with a
\* non-zero status ends as it does when pkill exits with zero, never with the
\* error of the process-killer.
C25_EditorAndKiller ==
    /\ [][EditorFails =>
            /\ result' = Failed(calls, "transcribe", cur.id, "Editor did not exit successfully")
            /\ posts' = posts
            /\ pc' = "idle"
            /\ cur.id \in DOMAIN tmp']_vars
    /\ [][/\ \A given \in {NoGiven, Given(D3)}, stem \in source \cup {<<>>}, viewer \in BOOLEAN :
                ShowCmd(given, stem, "nonzero", viewer) =>
                    /\ ShowCmd(given, stem, "zero", viewer)
                    /\ result' # result => result'.err # "Killing image viewer"
          /\ \A id \in Ids, viewer \in BOOLEAN :
                TranscribeCmd(id, "nonzero", viewer) =>
                    /\ TranscribeCmd(id, "zero", viewer)
                    /\ result' # result => result'.err # "Killing image viewer"
          /\ \A text \in Edits(cur.shown), success \in BOOLEAN :
                EditorExit(text, success, "nonzero") =>
                    /\ EditorExit(text, success, "zero")
                    /\ result' # result => result'.err # "Killing image viewer"]_vars

\* transcribe has failed on the editor's exit status: the post has no transcript
\* and the working file, edited, is still under tmp/.
C25_Witness ==
    /\ pc = "idle"
    /\ result.op = "transcribe"
    /\ result.err = "Editor did not exit successfully"
    /\ exit = "failure"
    /\ TRANSCRIPT \notin DOMAIN posts[result.id]
    /\ tmp[result.id] = NewTranscript

\* The entries of the listing of a call that were read, whether some entry could
\* not be read, and the listing without the entries that could not be read.
ReadEntries == {arg.listing[i].name : i \in {j \in 1..Len(arg.listing) : arg.listing[j].ok}}
HasUnread == \E i \in 1..Len(arg.listing) : ~arg.listing[i].ok
IsRead(entry) == entry.ok
ReadListing == SelectSeq(arg.listing, IsRead)

Picked == arg.fn = "get_random_date" /\ ans # NoAns
PostSearched == arg.fn = "find_post" /\ ans # NoAns

\* The comics read from source/ that the range and the Sunday restriction admit.
Admitted == {n \in ReadEntries : Holds(ShowPredicate(arg.range, arg.sunday), n)}

WrittenBefore ==
    ("Failed to write date file" :> {})
        @@ ("Failed to create title file" :> {DATE})
        @@ ("Failed to open comic" :> {DATE, TITLE})
        @@ ("Failed to save generated image" :> {DATE, TITLE})
        @@ ("Failed to copy generated image" :> {DATE, TITLE, INITIAL})

\* A directory make did not finish.
Unfinished(post) == DUPLICATE \notin DOMAIN post

\* C27: a call of make (by the make command or by revise) that fails after it
\* created generated/<name> leaves that directory with exactly the files written
\* before the failing step, the date file holding the date; no later step of the
\* program removes or changes such a directory (only its removal from generated/
\* from outside does); and as long as an unfinished directory with a date file is
\* there, every make for its date fails with the incomplete-post error and leaves
\* generated/ as it was.
C27_NoRollback ==
    /\ [][(MakeCalled /\ mk'.ret \in DOMAIN WrittenBefore) =>
             /\ mk'.name \notin DOMAIN generated
             /\ mk'.name \in DOMAIN generated'
             /\ DOMAIN generated'[mk'.name] = WrittenBefore[mk'.ret]
             /\ DATE \in WrittenBefore[mk'.ret] =>
                   generated'[mk'.name][DATE] = FormatDate(mk'.date)
             /\ INITIAL \in WrittenBefore[mk'.ret] =>
                   \E i \in 1..Len(watermarks) :
                       generated'[mk'.name][INITIAL] = ConvertImage(FormatDate(mk'.date), watermarks[i])
             /\ \A id \in DOMAIN generated :
                   id \in DOMAIN generated' /\ generated'[id] = generated[id]]_vars
    /\ [][\A id \in DOMAIN generated :
             (Unfinished(generated[id]) /\ ~Promote(id)) =>
                 id \in DOMAIN generated' /\ generated'[id] = generated[id]]_vars
    /\ [][(/\ MakeCalled
           /\ \E id \in DOMAIN generated :
                 Unfinished(generated[id]) /\ PostDate(generated[id]) = mk'.date) =>
             /\ mk'.ret = IncompleteError
             /\ generated' = generated]_vars

\* The first make stopped at the copy of the duplicate image and left the date
\* file, the title file and the primary image; the second make for the same date,
\* under another name, was turned down for the incomplete post.
C27_Witness ==
    /\ mk.n = MaxCalls
    /\ mk.ret = IncompleteError
    /\ mk.name \notin DOMAIN generated
    /\ \E id \in DOMAIN generated :
          /\ DOMAIN generated[id] = {DATE, TITLE, INITIAL}
          /\ PostDate(generated[id]) = mk.date

\* A revise that fails in this step, after its own call of make succeeded.
ReviseFailsAfterMake ==
    /\ result' # result
    /\ result'.op = "revise" /\ result'.status = "err"
    /\ mk'.n = result'.n /\ mk'.ret = "ok"

\* gen/<id> and pst/<id> both exist and carry one date.
DoubledIn(gen, pst, id) ==
    /\ id \in DOMAIN gen /\ id \in DOMAIN pst
    /\ PostDate(pst[id]) # NoDate
    /\ PostDate(gen[id]) = PostDate(pst[id])

Doubled(id) == DoubledIn(generated, posts, id)

\* revise(id) is invoked in this step.
ReviseInvoked(id) ==
    /\ calls' = calls + 1
    /\ \/ pc' = "confirm_move" /\ cur'.id = id
       \/ result'.n = calls' /\ result'.op = "revise" /\ result'.id = id

\* C28: a revise(id) that fails after its call of make succeeded (a missing title
\* file, a failed copy, old/<id> already there or the failed move) leaves
\* generated/<id> with the date of posts/<id>, which is still there; once no
\* revise(id) is under way no step of the program undoes that; and every
\* revise(id) invoked while it lasts fails
\* with 'Failed to make post', its make turned down by the look at generated/,
\* and changes nothing.
C28_ReviseNotRetryable ==
    /\ [][ReviseFailsAfterMake =>
             /\ result'.err \in
                   {"Post is missing " \o TITLE \o " file",
                    "unimplemented: post already revised",
                    "Failed to move post to old directory"}
                       \cup {"Failed to copy " \o f \o " file" :
                               f \in {TITLE, TRANSCRIPT, PROPS, SPECIAL, SVG}}
             /\ DoubledIn(generated', posts', result'.id)
             /\ PostDate(generated'[result'.id]) = mk'.date]_vars
    /\ [][\A id \in Ids :
             (Doubled(id) /\ (pc = "idle" \/ cur.id # id)) =>
                 DoubledIn(generated', posts', id)]_vars
    /\ [][\A id \in Ids :
             (Doubled(id) /\ ReviseInvoked(id)) =>
                 /\ result' = Failed(calls', "revise", id, "Failed to make post")
                 /\ mk'.n = calls' /\ mk'.ret = IncompleteError
                 /\ generated' = generated /\ posts' = posts /\ old' = old
                 /\ pc' = "idle"]_vars

\* revise(5) made generated/5, copied the files forward and stopped at old/5, there
\* from an earlier revision; revise(5), run again, was turned down by make.
C28_Witness ==
    /\ result = Failed(MaxCalls, "revise", Id5, "Failed to make post")
    /\ mk.ret = IncompleteError
    /\ Doubled(Id5)
    /\ Id5 \in DOMAIN old
    /\ SVG \in DOMAIN generated[Id5]

\* C29: for every id that parses as a u32, u32::MAX included, is_id_sunday returns
\* whether (id + 1) mod 7 = 0 in the integers: it does not panic and does not
\* answer from a sum that wrapped around.
C29_NoOverflow ==
    (arg.fn = "is_id_sunday" /\ ans # NoAns /\ ParseU32(arg.id).ok) =>
        ans.ret = (IF (Mod7(ParseU32(arg.id).digits) + 1) % 7 = 0 THEN "sunday" ELSE "weekday")

\* C30: with a watermarks file that has no lines, every call of make returns an
\* error and none panics: an index is drawn only among the lines there are.
C30_NoPanicOnEmptyWatermarks ==
    (mk.ret # "none" /\ watermarks = <<>>) =>
        /\ mk.ret \notin {"ok", "panic"}
        /\ result.status # "panic"

====
